---- MODULE Spec2Model ----
(***************************************************************************)
(* Ai-Link A.O. Smith integration: the device aggregator (coordinator),    *)
(* the vendor API client's session state, the optimistic write paths of    *)
(* the entity projections, the status decoder and the numeric coercion.    *)
(*                                                                         *)
(* Python values are modelled as tagged records:                           *)
(*   None            [t |-> "none"]                                        *)
(*   int             [t |-> "int", v |-> n]                                *)
(*   float           [t |-> "float", num |-> n, den |-> 10^k]  (reduced)   *)
(*   str             [t |-> "str", s |-> <<characters>>]                   *)
(*   str holding the JSON text of a value J                                *)
(*                   [t |-> "text", doc |-> J]                             *)
(*   list            [t |-> "list", elems |-> <<values>>]                  *)
(*   dict            [t |-> "dict", items |-> [key |-> value]]             *)
(* A device snapshot (always a dict) is the function of its items.         *)
(***************************************************************************)
EXTENDS Integers, Sequences, FiniteSets, Bags, TLC

VARIABLES
    session,              \* AOSmithAPI._session is not None
    is_authenticated,     \* AOSmithAPI._is_authenticated
    data,                 \* AOSmithDataUpdateCoordinator.data : device id -> snapshot
    last_update_success,  \* the scheduler's record of the last cycle's outcome
    pc,                   \* position of the refresh cycle: idle, auth, list, status
    listed,               \* the device listing of the running / last cycle succeeded
    devices,              \* `devices` of _async_update_data
    idx,                  \* index in `devices` of the device whose status is awaited
    built,                \* the local `data` dict being built by _async_update_data
    results,              \* per listed device id: the record, and what its fetch gave
    prevData,             \* the vendor part of the map most recently installed
    inflight,             \* vendor commands sent and not yet answered
    lastCmd,              \* how the command call the last step finished ended, if it did
    raised,               \* the exception the last write path let through to the host
    is_on,                \* AOSmithBaseSwitch._is_on of each switch
    zero_cold_water_status, \* AOSmithWaterHeater._zero_cold_water_status
    arg,                  \* input of the pure function under check
    ret                   \* its result

vars == <<session, is_authenticated, data, last_update_success, pc, listed, devices,
          idx, built, results, prevData, inflight, lastCmd, raised, is_on,
          zero_cold_water_status, arg, ret>>

cycleVars == <<pc, listed, devices, idx, built, results>>
systemVars == <<session, is_authenticated, data, last_update_success, listed, devices,
                idx, built, results, prevData, inflight, lastCmd, raised, is_on,
                zero_cold_water_status>>
pureVars == <<arg, ret>>
entityVars == <<raised, is_on, zero_cold_water_status>>

(***************************************************************************)
(* Bounds of the model.                                                    *)
(***************************************************************************)
MaxList == 2       \* devices in a listing
MaxInFlight == 1   \* vendor commands awaiting their response
MaxEvents == 2     \* events in a decoded statusInfo
MaxStr == 3        \* characters in a raw field value
MaxVendor == 3     \* devices in one list of the vendor's homepage answer
MaxCalls == 2      \* calls of the client suspended at an await
MaxSessions == 3   \* ClientSession objects the client makes

(***************************************************************************)
(* Python values.                                                          *)
(***************************************************************************)
\* lastCmd when the last step finished no command call
NoCommand == "no"

None == [t |-> "none"]
PyInt(n) == [t |-> "int", v |-> n]
PyStr(s) == [t |-> "str", s |-> s]
JsonText(j) == [t |-> "text", doc |-> j]
PyList(es) == [t |-> "list", elems |-> es]
PyDict(f) == [t |-> "dict", items |-> f]
EmptyMap == [k \in {} |-> None]

Digits == <<"0", "1", "2", "3", "4", "5", "6", "7", "8", "9">>
DigitChars == {Digits[i] : i \in 1..10}
DigitVal(c) == (CHOOSE i \in 1..10 : Digits[i] = c) - 1

RECURSIVE StrToInt(_)
StrToInt(s) ==
    IF s = <<>> THEN 0
    ELSE 10 * StrToInt(SubSeq(s, 1, Len(s) - 1)) + DigitVal(s[Len(s)])

RECURSIVE IntToStr(_)
IntToStr(n) ==
    IF n < 10 THEN <<Digits[n + 1]>>
    ELSE Append(IntToStr(n \div 10), Digits[(n % 10) + 1])

Truthy(v) ==
    CASE v.t = "none" -> FALSE
      [] v.t = "int" -> v.v # 0
      [] v.t = "float" -> v.num # 0
      [] v.t = "str" -> v.s # <<>>
      [] v.t = "text" -> TRUE
      [] v.t = "list" -> v.elems # <<>>
      [] v.t = "dict" -> DOMAIN v.items # {}

\* dict.get(key) on the items of a dict
Get(items, key) == IF key \in DOMAIN items THEN items[key] ELSE None

Put(items, key, value) == (key :> value) @@ items
Pop(items, key) == [k \in DOMAIN items \ {key} |-> items[k]]

(***************************************************************************)
(* Python's str and number conversions, over strings of the characters     *)
(* 0-9 . - a and the blank.                                                *)
(***************************************************************************)
Ok(v) == [exc |-> "none", val |-> v]
Raise(e) == [exc |-> e, val |-> None]

RECURSIVE Pow10(_)
Pow10(k) == IF k = 0 THEN 1 ELSE 10 * Pow10(k - 1)

RECURSIVE PyFloat(_, _)
PyFloat(num, den) ==
    IF den > 1 /\ num % 10 = 0 THEN PyFloat(num \div 10, den \div 10)
    ELSE [t |-> "float", num |-> num, den |-> den]

\* str.strip()
RECURSIVE Strip(_)
Strip(s) ==
    IF s = <<>> THEN s
    ELSE IF s[1] = " " THEN Strip(Tail(s))
    ELSE IF s[Len(s)] = " " THEN Strip(SubSeq(s, 1, Len(s) - 1))
    ELSE s

\* str.isdigit()
IsDigit(s) == s # <<>> /\ \A i \in 1..Len(s) : s[i] \in DigitChars

HasDot(s) == \E i \in 1..Len(s) : s[i] = "."

\* str.replace(".", "", 1)
ReplaceFirstDot(s) ==
    IF HasDot(s)
    THEN LET i == CHOOSE i \in 1..Len(s) :
                     s[i] = "." /\ \A j \in 1..(i - 1) : s[j] # "."
         IN SubSeq(s, 1, i - 1) \o SubSeq(s, i + 1, Len(s))
    ELSE s

\* digits with at most one point and at least one digit: 5, 5., .5, 38.5
IsDecimal(s) == IsDigit(ReplaceFirstDot(s))

DecimalValue(s) ==
    LET i == IF HasDot(s) THEN CHOOSE i \in 1..Len(s) : s[i] = "." ELSE Len(s) + 1
    IN [num |-> StrToInt(ReplaceFirstDot(s)), den |-> Pow10(IF i > Len(s) THEN 0 ELSE Len(s) - i)]

Unsigned(s) == IF s # <<>> /\ s[1] = "-" THEN Tail(s) ELSE s
Sign(s) == IF s # <<>> /\ s[1] = "-" THEN -1 ELSE 1

\* float(v)
float(v) ==
    CASE v.t = "int" -> Ok(PyFloat(v.v, 1))
      [] v.t = "float" -> Ok(v)
      [] v.t = "str" ->
           LET u == Strip(v.s) IN
           IF IsDecimal(Unsigned(u))
           THEN LET d == DecimalValue(Unsigned(u)) IN Ok(PyFloat(Sign(u) * d.num, d.den))
           ELSE Raise("ValueError")
      [] v.t = "text" -> Raise("ValueError")
      [] OTHER -> Raise("TypeError")

\* int(v)
int(v) ==
    CASE v.t = "int" -> Ok(v)
      [] v.t = "float" ->
           Ok(PyInt(IF v.num >= 0 THEN v.num \div v.den ELSE -((-v.num) \div v.den)))
      [] v.t = "str" ->
           LET u == Strip(v.s) IN
           IF IsDigit(Unsigned(u)) THEN Ok(PyInt(Sign(u) * StrToInt(Unsigned(u))))
           ELSE Raise("ValueError")
      [] v.t = "text" -> Raise("ValueError")
      [] OTHER -> Raise("TypeError")

\* str(n) of an int
str(n) == PyStr(IF n < 0 THEN <<"-">> \o IntToStr(-n) ELSE IntToStr(n))

\* a JSON number literal: optional minus, no leading zero, digits on both sides of a point
IsJsonNumber(s) ==
    LET u == Unsigned(Strip(s))
        i == IF HasDot(u) THEN CHOOSE i \in 1..Len(u) : u[i] = "." ELSE Len(u) + 1
        whole == SubSeq(u, 1, i - 1)
        frac == SubSeq(u, i + 1, Len(u))
    IN /\ IsDigit(whole)
       /\ (Len(whole) > 1 => whole[1] # "0")
       /\ (HasDot(u) => IsDigit(frac))

\* json.loads(v)
json_loads(v) ==
    CASE v.t = "text" -> Ok(v.doc)
      [] v.t = "str" ->
           IF IsJsonNumber(v.s)
           THEN (IF HasDot(v.s) THEN float(v) ELSE int(v))
           ELSE Raise("JSONDecodeError")
      [] OTHER -> Raise("TypeError")

(***************************************************************************)
(* The status decoders.  A result is Ok(value) or Raise(exception).        *)
(***************************************************************************)
EmptyDict == PyDict(EmptyMap)
Post == PyStr(<<"p", "o", "s", "t">>)
IsStr(v) == v.t \in {"str", "text"}

\* entity.py: the fallback after the events loop
TopLevelOutput(parsed) ==
    LET output == Get(parsed.items, "outputData")
    IN Ok(IF output.t = "dict" THEN output ELSE EmptyDict)

\* entity.py: the loop over events
RECURSIVE ScanEvents(_, _, _)
ScanEvents(es, i, parsed) ==
    IF i > Len(es) THEN TopLevelOutput(parsed)
    ELSE IF es[i].t # "dict" THEN Raise("AttributeError")
    ELSE IF Get(es[i].items, "identifier") = Post
    THEN LET output == Get(es[i].items, "outputData")
         IN Ok(IF output.t = "dict" THEN output ELSE EmptyDict)
    ELSE ScanEvents(es, i + 1, parsed)

\* entity.py: what follows the parsing of statusInfo
FromParsed(parsed) ==
    IF parsed.t # "dict" THEN Raise("AttributeError")
    ELSE LET events == Get(parsed.items, "events")
         IN IF events.t = "list" THEN ScanEvents(events.elems, 1, parsed)
            ELSE TopLevelOutput(parsed)

\* entity.py: extract_output_data(device_data)
extract_output_data(snap) ==
    IF DOMAIN snap = {} THEN Ok(EmptyDict)
    ELSE LET raw0 == Get(snap, "statusInfo")
             app == Get(snap, "appDeviceStatusInfoEntity")
             raw == IF ~Truthy(raw0) /\ app.t = "dict"
                    THEN Get(app.items, "statusInfo") ELSE raw0
         IN IF ~Truthy(raw) THEN Ok(EmptyDict)
            ELSE IF IsStr(raw)
            THEN LET r == json_loads(raw)
                 IN IF r.exc = "JSONDecodeError" THEN Ok(EmptyDict)
                    ELSE IF r.exc # "none" THEN r
                    ELSE FromParsed(r.val)
            ELSE IF raw.t = "dict" THEN FromParsed(raw)
            ELSE Ok(EmptyDict)

\* `for event in x`: the elements a Python for loop visits, or the TypeError
Iterate(x) ==
    CASE x.t = "list" -> Ok(x.elems)
      [] x.t = "dict" -> Ok([i \in 1..Cardinality(DOMAIN x.items) |-> PyStr(<<"a">>)])
      [] x.t = "str" -> Ok([i \in 1..Len(x.s) |-> PyStr(<<x.s[i]>>)])
      [] x.t = "text" -> Ok(<<PyStr(<<"a">>)>>)
      [] OTHER -> Raise("TypeError")

\* dict.get(key, default)
GetOr(items, key, default) == IF key \in DOMAIN items THEN items[key] ELSE default

\* sensor.py, number.py, select.py, fan.py: the loop over events
RECURSIVE LocalScan(_, _)
LocalScan(es, i) ==
    IF i > Len(es) THEN Ok(EmptyDict)
    ELSE IF es[i].t # "dict" THEN Raise("AttributeError")
    ELSE IF Get(es[i].items, "identifier") = Post
    THEN LET output == GetOr(es[i].items, "outputData", EmptyDict)
         IN Ok(IF Truthy(output) THEN output ELSE EmptyDict)
    ELSE LocalScan(es, i + 1)

\* sensor.py, number.py, select.py, fan.py: _extract_output_data(device_data)
local_extract_output_data(snap) ==
    IF DOMAIN snap = {} THEN Ok(EmptyDict)
    ELSE LET raw == Get(snap, "statusInfo") IN
         IF ~Truthy(raw) THEN Ok(EmptyDict)
         ELSE LET r == json_loads(raw)
                  parsed == IF r.exc = "none" THEN r.val
                            ELSE IF raw.t = "dict" THEN raw ELSE EmptyDict
                  events == IF parsed.t = "dict"
                            THEN GetOr(parsed.items, "events", PyList(<<>>))
                            ELSE PyList(<<>>)
                  it == Iterate(events)
              IN IF it.exc # "none" THEN it ELSE LocalScan(it.val, 1)

(***************************************************************************)
(* Vendor data of the model.                                               *)
(***************************************************************************)
DeviceIds == {"d1", "d2"}
NoId == ""
OverlayKeys == {"target_temperature", "operation_mode", "cruise_timer"}

DeviceRecord(id) ==
    [deviceId |-> id, deviceCategory |-> PyStr(<<"1", "9">>), productName |-> "heater"]
DeviceRecords == {DeviceRecord(id) : id \in DeviceIds \cup {NoId}}

PostEvent(temp) ==
    PyDict([identifier |-> PyStr(<<"p", "o", "s", "t">>),
          outputData |-> PyDict([waterTemp |-> PyStr(IntToStr(temp)),
                               powerStatus |-> PyStr(<<"1">>)])])
StatusDoc(temp) == PyDict([events |-> PyList(<<PostEvent(temp)>>)])
\* the `info` object of getDeviceCurrInfo; productName collides with the device record
StatusInfos == {[statusInfo |-> JsonText(StatusDoc(45)), productName |-> "heater-status"]}

RECURSIVE SeqsUpTo(_, _)
SeqsUpTo(S, n) ==
    IF n = 0 THEN {<<>>}
    ELSE LET shorter == SeqsUpTo(S, n - 1)
         IN shorter \cup {Append(q, x) : q \in shorter, x \in S}

Distinct(q) == \A i, j \in 1..Len(q) : i # j => q[i] # q[j]
Listings == {q \in SeqsUpTo(DeviceRecords, MaxList) : Distinct(q)}

(***************************************************************************)
(* The coordinator: AOSmithDataUpdateCoordinator._async_update_data.       *)
(***************************************************************************)
\* how an awaited status fetch ends: it returns the info object ("ok"), an empty
\* one ("empty") or None ("none"), it raises ("raise"), or wait_for gives up ("timeout")
\* the status fetch awaited without asyncio.wait_for: nothing gives up
StatusKindsNoTimeout == {"ok", "empty", "none", "raise"}

StatusKinds == {"ok", "empty", "none", "raise", "timeout"}
StatusOutcomes ==
    {[kind |-> "ok", info |-> i] : i \in StatusInfos}
    \cup {[kind |-> k, info |-> EmptyMap] : k \in StatusKinds \ {"ok"}}

\* `results`: for every listed device with a deviceId, its record and what its status
\* fetch gave: not awaited yet ("pending"), an info object ("status"), none ("nothing")
Listed(devs) ==
    [id \in {devs[i].deviceId : i \in 1..Len(devs)} \ {NoId} |->
        [device |-> CHOOSE r \in {devs[i] : i \in 1..Len(devs)} : r.deviceId = id,
         got |-> "pending", info |-> EmptyMap]]
Kept(res, device, outcome) ==
    [res EXCEPT ![device.deviceId] =
        IF outcome.kind = "ok" THEN [@ EXCEPT !.got = "status", !.info = outcome.info]
        ELSE [@ EXCEPT !.got = "nothing"]]

\* {**status, **device}: the device record wins on a key of both
MergeDeviceWins(device, status) == device @@ status

\* {**device, **status}: the status value wins on a key of both
Merge(device, status) == status @@ device

\* index of the first device at or after i that has a truthy deviceId
RECURSIVE NextWithId(_, _)
NextWithId(devs, i) ==
    IF i > Len(devs) \/ devs[i].deviceId # NoId THEN i
    ELSE NextWithId(devs, i + 1)

\* a failed status fetch drops the device
KeepBareDropsDevice(blt, device) == blt

\* a failed status fetch keeps the bare device record
KeepBare(blt, device) == Put(blt, device.deviceId, device)

\* the snapshot of the cycle is laid over the stored one
StoreStatusOverStored(blt, device, outcome) ==
    Put(blt, device.deviceId,
        (IF outcome.kind = "ok" /\ DOMAIN outcome.info # {}
         THEN Merge(device, outcome.info) ELSE device)
        @@ (IF device.deviceId \in DOMAIN data THEN data[device.deviceId] ELSE EmptyMap))

\* the body of the per-device try block, given what the status fetch gave
StoreStatus(blt, device, outcome) ==
    IF outcome.kind = "ok" /\ DOMAIN outcome.info # {}
    THEN Put(blt, device.deviceId, Merge(device, outcome.info))
    ELSE KeepBare(blt, device)

\* coordinator.data patched entry by entry while the cycle runs
DataPatchedWhileBuilding(store, blt) == blt @@ store

\* coordinator.data while the cycle's local dict is being built: left alone
DataWhileBuilding(store, blt) == store

\* coordinator.data cleared when the cycle fails
DataClearedAfterFailure(store) == EmptyMap

\* coordinator.data after the cycle raised UpdateFailed: left alone
DataAfterFailure(store) == store

VendorPart(snap) == [k \in DOMAIN snap \ OverlayKeys |-> snap[k]]
VendorMap(store) == [d \in DOMAIN store |-> VendorPart(store[d])]

\* a refresh installs a new map: every command's overlay is gone with the old one
Superseded(cmds) == {[c EXCEPT !.live = FALSE] : c \in cmds}

\* the cycle returns `blt`; the scheduler stores it as coordinator.data
Install(blt) ==
    /\ data' = blt
    /\ prevData' = VendorMap(blt)
    /\ last_update_success' = TRUE
    /\ inflight' = Superseded(inflight)
    /\ pc' = "idle"
    /\ idx' = 0
    /\ built' = EmptyMap
    /\ devices' = <<>>

\* the cycle raised; the scheduler records the failure
UpdateFailed ==
    /\ data' = DataAfterFailure(data)
    /\ last_update_success' = FALSE
    /\ pc' = "idle"
    /\ listed' = FALSE
    /\ devices' = <<>>
    /\ idx' = 0
    /\ built' = EmptyMap
    /\ results' = EmptyMap
    /\ UNCHANGED <<prevData, inflight>>

\* the cycle lists at once, authenticated or not
FirstPhaseSkipsAuth(authenticated) == "list"

\* `if not self.api.is_authenticated: await self.api.async_authenticate()`: the
\* call the cycle awaits first
FirstPhase(authenticated) == IF authenticated THEN "list" ELSE "auth"

\* the scheduler starts a cycle; it runs to its first await
Tick ==
    /\ pc = "idle"
    /\ pc' = FirstPhase(is_authenticated)
    /\ session' = IF pc' = "auth" THEN TRUE ELSE session
    /\ listed' = FALSE
    /\ devices' = <<>>
    /\ results' = EmptyMap
    /\ idx' = 0
    /\ built' = EmptyMap
    /\ lastCmd' = NoCommand
    /\ UNCHANGED <<is_authenticated, data, last_update_success, prevData, inflight>>
    /\ UNCHANGED <<pureVars, entityVars>>

\* async_authenticate's validation call returns
AuthDone ==
    /\ pc = "auth"
    /\ lastCmd' = NoCommand
    /\ UNCHANGED <<pureVars, entityVars>>
    /\ \/ /\ session
          /\ is_authenticated' = TRUE
          /\ pc' = "list"
          /\ UNCHANGED <<session, data, last_update_success, prevData, inflight,
                         listed, devices, idx, built, results>>
       \/ /\ session' = FALSE
          /\ is_authenticated' = FALSE
          /\ UpdateFailed

\* the cycle's async_get_devices call returns
ListDone ==
    /\ pc = "list"
    /\ lastCmd' = NoCommand
    /\ UNCHANGED <<session, is_authenticated>>
    /\ UNCHANGED <<pureVars, entityVars>>
    /\ \/ /\ session
          /\ \E devs \in Listings :
                LET j == NextWithId(devs, 1) IN
                /\ listed' = TRUE
                /\ results' = Listed(devs)
                /\ IF j > Len(devs)
                   THEN Install(EmptyMap)
                   ELSE /\ pc' = "status"
                        /\ devices' = devs
                        /\ idx' = j
                        /\ built' = EmptyMap
                        /\ data' = DataWhileBuilding(data, EmptyMap)
                        /\ UNCHANGED <<last_update_success, prevData, inflight>>
       \/ UpdateFailed

\* the awaited async_get_device_status of devices[idx] ends: it returns, or
\* raises, or asyncio.wait_for times out after 10 s
StatusEnds(outcome) ==
    /\ pc = "status"
    /\ lastCmd' = NoCommand
    /\ UNCHANGED <<session, is_authenticated, listed>>
    /\ UNCHANGED <<pureVars, entityVars>>
    /\ LET blt == StoreStatus(built, devices[idx], outcome)
           j == NextWithId(devices, idx + 1)
       IN
       /\ outcome.kind \in {"ok", "empty"} => session
       /\ results' = Kept(results, devices[idx], outcome)
       /\ IF j > Len(devices)
          THEN Install(blt)
          ELSE /\ pc' = "status"
               /\ devices' = devices
               /\ idx' = j
               /\ built' = blt
               /\ data' = DataWhileBuilding(data, blt)
               /\ UNCHANGED <<last_update_success, prevData, inflight>>

StatusDone == \E outcome \in StatusOutcomes : StatusEnds(outcome)

\* AOSmithAPI.close(), called by async_unload_entry between two refresh cycles
Close ==
    /\ session
    /\ pc = "idle"
    /\ session' = FALSE
    /\ is_authenticated' = FALSE
    /\ lastCmd' = NoCommand
    /\ UNCHANGED <<data, last_update_success, prevData, inflight>>
    /\ UNCHANGED cycleVars
    /\ UNCHANGED <<pureVars, entityVars>>

(***************************************************************************)
(* Entity projections: reads.                                              *)
(***************************************************************************)
\* entity.py: AOSmithEntity.device_data
device_data(d) == IF d \in DOMAIN data THEN data[d] ELSE EmptyMap

\* water_heater.py: the loop of current_temperature
RECURSIVE TemperatureScan(_, _)
TemperatureScan(es, i) ==
    IF i > Len(es) THEN None
    ELSE IF es[i].t # "dict" THEN PyFloat(0, 1)
    ELSE IF Get(es[i].items, "identifier") = Post
    THEN LET output == GetOr(es[i].items, "outputData", EmptyDict) IN
         IF output.t # "dict" THEN PyFloat(0, 1)
         ELSE LET val == Get(output.items, "waterTemp") IN
              IF val = None THEN PyFloat(0, 1)
              ELSE IF float(val).exc = "none" THEN float(val).val
              ELSE PyFloat(0, 1)
    ELSE TemperatureScan(es, i + 1)

\* water_heater.py: AOSmithWaterHeater.current_temperature
current_temperature(snap) ==
    LET status_info == Get(snap, "statusInfo") IN
    IF ~Truthy(status_info) THEN None
    ELSE LET r == json_loads(status_info) IN
         IF r.exc # "none" \/ r.val.t # "dict" THEN PyFloat(0, 1)
         ELSE LET it == Iterate(GetOr(r.val.items, "events", PyList(<<>>))) IN
              IF it.exc # "none" THEN PyFloat(0, 1)
              ELSE TemperatureScan(it.val, 1)

\* water_heater.py: AOSmithWaterHeater.target_temperature
target_temperature(snap) ==
    IF "target_temperature" \in DOMAIN snap THEN snap["target_temperature"]
    ELSE LET current == current_temperature(snap)
         IN IF Truthy(current) THEN current ELSE PyFloat(40, 1)

\* output.get("WaterCruiseTimer") or output.get("waterCruiseTimer") or output.get("cruiseTimer")
CruiseRawValue(items) ==
    IF Truthy(Get(items, "WaterCruiseTimer")) THEN Get(items, "WaterCruiseTimer")
    ELSE IF Truthy(Get(items, "waterCruiseTimer")) THEN Get(items, "waterCruiseTimer")
    ELSE Get(items, "cruiseTimer")

\* the cruise-timer value decoded from the snapshot's status, or the exception
CruiseFromStatus(snap) ==
    LET output == local_extract_output_data(snap) IN
    IF output.exc # "none" THEN output
    ELSE IF output.val.t # "dict" THEN Raise("AttributeError")
    ELSE Ok(CruiseRawValue(output.val.items))

\* number.py: AOSmithCruiseTimer.native_value
native_value(snap) ==
    LET cached == Get(snap, "cruise_timer") IN
    IF cached # None /\ float(cached).exc = "none" THEN float(cached)
    ELSE LET raw == CruiseFromStatus(snap) IN
         IF raw.exc # "none" THEN raw
         ELSE IF raw.val = None THEN Ok(None)
         ELSE IF float(raw.val).exc = "none" THEN float(raw.val)
         ELSE Ok(None)

\* str(v) of a value read from the status
PyStrOf(v) ==
    CASE v.t = "str" -> v
      [] v.t = "int" -> str(v.v)
      [] OTHER -> PyStr(<<"a">>)

\* select.py: AOSmithCruiseTimerSelect.current_option
current_option(snap) ==
    LET cached == Get(snap, "cruise_timer") IN
    IF cached # None
    THEN (IF int(cached).exc = "none" THEN Ok(str(int(cached).val.v)) ELSE int(cached))
    ELSE LET raw == CruiseFromStatus(snap) IN
         IF raw.exc # "none" THEN raw
         ELSE IF raw.val = None THEN Ok(None)
         ELSE Ok(PyStrOf(raw.val))

\* int(float(v))
IntOfFloat(v) == IF float(v).exc = "none" THEN int(float(v).val) ELSE float(v)

\* fan.py: AOSmithCruiseTimerFan.percentage
percentage(snap) ==
    LET cached == Get(snap, "cruise_timer") IN
    IF cached # None /\ IntOfFloat(cached).exc = "none" THEN IntOfFloat(cached)
    ELSE LET raw == CruiseFromStatus(snap) IN
         IF raw.exc # "none" THEN raw
         ELSE IF raw.val = None THEN Ok(None)
         ELSE IF IntOfFloat(raw.val).exc = "none" THEN IntOfFloat(raw.val)
         ELSE Ok(None)

\* entity.py: AOSmithEntity._get_status_info
get_status_info(snap) ==
    LET status_info == Get(snap, "statusInfo")
        app_status == Get(snap, "appDeviceStatusInfoEntity")
    IN IF Truthy(status_info) THEN status_info
       ELSE IF app_status.t = "dict" THEN Get(app_status.items, "statusInfo")
       ELSE None

\* switch.py: _get_state_from_output of AOSmithCruiseSwitch and AOSmithHalfPipeSwitch
get_state_from_output(key, output) ==
    IF key = "cruise" THEN Get(output.items, "cruiseStatus") = PyStr(<<"1">>)
    ELSE LET first == Get(output.items, "halfPipeStatus")
             second == IF first = None THEN Get(output.items, "setHalfPipeCircle") ELSE first
             third == IF second = None THEN Get(output.items, "halfPipeCircle") ELSE second
         IN PyStrOf(third) = PyStr(<<"1">>)

\* switch.py: the loop of _update_state_from_data; `on` is self._is_on, left as it
\* is when no post event is found or an exception is caught
RECURSIVE SwitchScan(_, _, _, _)
SwitchScan(es, i, key, on) ==
    IF i > Len(es) THEN on
    ELSE IF es[i].t # "dict" THEN on
    ELSE IF Get(es[i].items, "identifier") = Post
    THEN LET output == GetOr(es[i].items, "outputData", EmptyDict) IN
         IF output.t # "dict" THEN on ELSE get_state_from_output(key, output)
    ELSE SwitchScan(es, i + 1, key, on)

\* the switch reports what its last command set
update_state_keeps(snap, key, on) == on

\* switch.py: AOSmithBaseSwitch._update_state_from_data: self._is_on after it
update_state_from_data(snap, key, on) ==
    LET status_info == get_status_info(snap) IN
    IF ~Truthy(status_info) THEN on
    ELSE LET r == json_loads(status_info) IN
         IF r.exc # "none" \/ r.val.t # "dict" THEN on
         ELSE LET it == Iterate(GetOr(r.val.items, "events", PyList(<<>>))) IN
              IF it.exc # "none" THEN on
              ELSE SwitchScan(it.val, 1, key, on)

(***************************************************************************)
(* Entity projections: the optimistic write paths.                         *)
(***************************************************************************)
\* number.py, select.py and fan.py import the range of the cruise timer from
\* const.py, which does not set it: the model takes a small range
CRUISE_TIMER_MIN == 1
CRUISE_TIMER_MAX == 2

\* the devices that were given entities at platform setup
EntityDevices == {"d1"}

Temperatures == {PyFloat(50, 1)}
\* the host hands async_set_native_value only values within the entity's
\* native_min_value and native_max_value (number.py l.63-64)
NumberValues == {PyFloat(5 * h, 10) : h \in (2 * CRUISE_TIMER_MIN)..(2 * CRUISE_TIMER_MAX)}
SelectOptions == {str(n) : n \in (CRUISE_TIMER_MIN - 1)..(CRUISE_TIMER_MAX + 1)}
Percentages == (CRUISE_TIMER_MIN - 1)..(CRUISE_TIMER_MAX + 1)

CommandOutcomes == {"ok", "non200", "none"}

\* the switches of a device, and the paths of water_heater.py
Switches == {"cruise", "half_pipe"}
WaterHeaterPaths == {"water_heater", "operation_mode", "zero_cold_water"}

\* the overlay field a write path stores its value in, if it stores one
KeyOf(ent) ==
    CASE ent = "water_heater" -> "target_temperature"
      [] ent = "operation_mode" -> "operation_mode"
      [] ent \in {"number", "select", "fan"} -> "cruise_timer"
      [] OTHER -> "none"

\* round(v) of a non-negative float: to the nearest integer, ties to even
round(v) ==
    LET q == v.num \div v.den
        twice == 2 * (v.num % v.den)
    IN IF twice < v.den THEN q
       ELSE IF twice > v.den THEN q + 1
       ELSE IF q % 2 = 0 THEN q ELSE q + 1

\* the overlay written only once the command has been answered
WriteOverlayAfterResponse(store, d, key, value) == store

\* self.device_data[key] = value; device_data is a fresh {} when the device is not stored
WriteOverlay(store, d, key, value) ==
    IF d \in DOMAIN store THEN [store EXCEPT ![d] = Put(@, key, value)] ELSE store

\* the rollback forgets the whole snapshot
RollbackDropsSnapshot(store, d, key) == [e \in DOMAIN store \ {d} |-> store[e]]

\* self.device_data.pop(key, None)
Rollback(store, d, key) ==
    IF d \in DOMAIN store THEN [store EXCEPT ![d] = Pop(@, key)] ELSE store

\* what the awaiting write path has in `result`: a response of status 200 ("ok"), or
\* None or a response of another status ("failed")
Seen(outcome) ==
    IF outcome = "ok" THEN "ok" ELSE IF outcome = "notdict" THEN "notdict" ELSE "failed"

\* the exception of async_send_command is raised again by the handler
CaughtReraised(exc) == exc

\* `except Exception as err:` of a cruise-timer or switch handler: the exception
\* is logged and goes no further
Caught(exc) == "none"

\* `if result and result.get("status") == 200` of the water heater's handlers: a
\* body that is JSON, true and no object has no `get`; the cruise-timer and
\* switch handlers do not look at the result
Escapes(ent, outcome) ==
    IF ent \in WaterHeaterPaths /\ outcome = "notdict" THEN "AttributeError" ELSE "none"

\* self._is_on = True / False once the switch's command call has returned, then
\* self.async_write_ha_state(): the host reads is_on of an available entity
SwitchedBy(on, cmd) ==
    IF cmd.ent \in Switches
    THEN [on EXCEPT ![cmd.ent] =
            IF last_update_success
            THEN update_state_from_data(device_data(cmd.dev), cmd.ent, cmd.value.v)
            ELSE cmd.value.v]
    ELSE on

\* what the write path does with the snapshot once async_send_command has returned
AfterResponse(store, cmd, outcome) == store

\* earlier commands whose overlay a later write or rollback of the same key replaces
Stale(cmds, d, key) ==
    {IF c.dev = d /\ KeyOf(c.ent) = key /\ d \in DOMAIN data
     THEN [c EXCEPT !.live = FALSE] ELSE c : c \in cmds}

\* a command in flight: the entity that sent it, its device, the overlay value written
\* before it was sent, whether the device was stored when the overlay was written, and
\* whether that overlay has been left alone since (no refresh has installed a new
\* map, no later write or rollback has touched the same field)
Command(ent, d, value) ==
    [ent |-> ent, dev |-> d, value |-> value, inStore |-> d \in DOMAIN data,
     live |-> d \in DOMAIN data]

\* water_heater.py: AOSmithWaterHeater.async_set_temperature, to its await
SetTemperature(d, temperature) ==
    /\ is_authenticated => Cardinality(inflight) < MaxInFlight
    /\ data' = WriteOverlay(data, d, "target_temperature", temperature)
    /\ inflight' = Stale(inflight, d, "target_temperature")
                   \cup (IF is_authenticated
                         THEN {Command("water_heater", d, temperature)} ELSE {})
    /\ lastCmd' = NoCommand
    /\ raised' = "none"
    /\ UNCHANGED <<session, is_authenticated, last_update_success, prevData>>
    /\ UNCHANGED <<is_on, zero_cold_water_status>>
    /\ UNCHANGED cycleVars
    /\ UNCHANGED pureVars

\* the cruise-timer write shared by number.py, select.py and fan.py, to its await;
\* async_send_command raises at once when there is no session
WriteCruiseTimer(ent, d, value) ==
    /\ session => Cardinality(inflight) < MaxInFlight
    /\ IF session
       THEN /\ data' = WriteOverlay(data, d, "cruise_timer", value)
            /\ inflight' = Stale(inflight, d, "cruise_timer") \cup {Command(ent, d, value)}
            /\ lastCmd' = NoCommand
            /\ raised' = "none"
       ELSE /\ data' = Rollback(WriteOverlay(data, d, "cruise_timer", value), d, "cruise_timer")
            /\ inflight' = Stale(inflight, d, "cruise_timer")
            /\ lastCmd' = "raise"
            /\ raised' = Caught("Exception")
    /\ UNCHANGED <<session, is_authenticated, last_update_success, prevData>>
    /\ UNCHANGED <<is_on, zero_cold_water_status>>
    /\ UNCHANGED cycleVars
    /\ UNCHANGED pureVars

\* number.py: AOSmithCruiseTimer.async_set_native_value
SetNativeValue(d, value) == WriteCruiseTimer("number", d, PyInt(round(value)))

\* select.py: AOSmithCruiseTimerSelect.async_select_option
SelectOption(d, option) ==
    /\ option \in {str(n) : n \in CRUISE_TIMER_MIN..CRUISE_TIMER_MAX}
    /\ WriteCruiseTimer("select", d, option)

\* the percentage is taken as the number of minutes
Unclamped(pct) == pct

\* fan.py: max(CRUISE_TIMER_MIN, min(CRUISE_TIMER_MAX, int(percentage)))
Clamped(pct) ==
    IF pct > CRUISE_TIMER_MAX THEN CRUISE_TIMER_MAX
    ELSE IF pct < CRUISE_TIMER_MIN THEN CRUISE_TIMER_MIN ELSE pct

\* fan.py: AOSmithCruiseTimerFan.async_set_percentage
SetPercentage(d, pct) == WriteCruiseTimer("fan", d, PyInt(Clamped(pct)))

\* the name of a mode, a str the model keeps whole
ModeName(mode) == [t |-> "mode", v |-> mode]

\* water_heater.py l.35-36: the coordinator has no config_json, the map is empty
operation_mode_map == EmptyMap

\* water_heater.py: AOSmithWaterHeater.async_set_operation_mode, to its await
SetOperationMode(d, mode) ==
    LET known == {k \in DOMAIN operation_mode_map : operation_mode_map[k] = mode}
        internal_mode == IF known = {} THEN None ELSE ModeName(CHOOSE k \in known : TRUE)
        sends == internal_mode # None /\ is_authenticated
    IN /\ sends => Cardinality(inflight) < MaxInFlight
       /\ data' = IF internal_mode = None THEN data
                  ELSE WriteOverlay(data, d, "operation_mode", internal_mode)
       /\ inflight' = IF sends THEN inflight \cup {Command("operation_mode", d, internal_mode)}
                      ELSE inflight
       /\ lastCmd' = NoCommand
       /\ raised' = "none"
       /\ UNCHANGED <<session, is_authenticated, last_update_success, prevData>>
       /\ UNCHANGED <<is_on, zero_cold_water_status>>
       /\ UNCHANGED cycleVars
       /\ UNCHANGED pureVars

\* water_heater.py: AOSmithWaterHeater.async_set_zero_cold_water, to its await
SetZeroColdWater(d, mode) ==
    LET valid == mode \in {"one_key", "half_pipe", "off"}
        sends == valid /\ is_authenticated
    IN /\ sends => Cardinality(inflight) < MaxInFlight
       /\ zero_cold_water_status' = IF valid THEN mode ELSE zero_cold_water_status
       /\ inflight' = IF sends
                      THEN inflight \cup {Command("zero_cold_water", d, ModeName(mode))}
                      ELSE inflight
       /\ lastCmd' = NoCommand
       /\ raised' = "none"
       /\ UNCHANGED <<session, is_authenticated, data, last_update_success, prevData>>
       /\ UNCHANGED is_on
       /\ UNCHANGED cycleVars
       /\ UNCHANGED pureVars

\* switch.py: AOSmithBaseSwitch.async_turn_on / async_turn_off, to the await of
\* the subclass's command; async_send_command raises at once when there is no
\* session
TurnSwitch(d, key, on) ==
    /\ session => Cardinality(inflight) < MaxInFlight
    /\ IF session
       THEN /\ inflight' = inflight \cup {Command(key, d, [t |-> "bool", v |-> on])}
            /\ lastCmd' = NoCommand
            /\ raised' = "none"
       ELSE /\ inflight' = inflight
            /\ lastCmd' = "raise"
            /\ raised' = Caught("Exception")
    /\ UNCHANGED <<session, is_authenticated, data, last_update_success, prevData>>
    /\ UNCHANGED <<is_on, zero_cold_water_status>>
    /\ UNCHANGED cycleVars
    /\ UNCHANGED pureVars

TurnOn(d, key) == TurnSwitch(d, key, TRUE)
TurnOff(d, key) == TurnSwitch(d, key, FALSE)

\* api.py: async_send_command returns to the write path that awaits it
CommandDone(c, outcome) ==
    /\ c \in inflight
    /\ inflight' = inflight \ {c}
    /\ data' = AfterResponse(data, c, outcome)
    /\ lastCmd' = Seen(outcome)
    /\ raised' = Escapes(c.ent, outcome)
    /\ is_on' = SwitchedBy(is_on, c)
    /\ UNCHANGED <<session, is_authenticated, last_update_success, prevData>>
    /\ UNCHANGED zero_cold_water_status
    /\ UNCHANGED cycleVars
    /\ UNCHANGED pureVars

(***************************************************************************)
(* The system.                                                             *)
(***************************************************************************)
\* AOSmithDataUpdateCoordinator.__init__: no data, no cycle, no command
Quiet ==
    /\ data = EmptyMap
    /\ last_update_success = TRUE
    /\ listed = FALSE
    /\ devices = <<>>
    /\ idx = 0
    /\ built = EmptyMap
    /\ results = EmptyMap
    /\ prevData = EmptyMap
    /\ inflight = {}
    /\ lastCmd = NoCommand
    /\ raised = "none"
    /\ is_on = [key \in Switches |-> FALSE]
    /\ zero_cold_water_status = "off"

\* async_setup_entry has authenticated the client and created the coordinator
Fresh ==
    /\ session = TRUE
    /\ is_authenticated = TRUE
    /\ Quiet

Init ==
    /\ Fresh
    /\ pc = "idle"
    /\ arg = None
    /\ ret = None

Next ==
    \/ Tick
    \/ AuthDone
    \/ ListDone
    \/ StatusDone
    \/ Close
    \/ \E d \in EntityDevices, temperature \in Temperatures : SetTemperature(d, temperature)
    \/ \E d \in EntityDevices, value \in NumberValues : SetNativeValue(d, value)
    \/ \E d \in EntityDevices, option \in SelectOptions : SelectOption(d, option)
    \/ \E d \in EntityDevices, pct \in Percentages : SetPercentage(d, pct)
    \/ \E c \in inflight, outcome \in CommandOutcomes : CommandDone(c, outcome)

Spec == Init /\ [][Next]_vars

\* the refresh cycles alone. An awaited request of the client ends within the
\* total timeout of its session (api.py l.31), and asyncio.wait_for ends the
\* wait for a device's status after 10 s: these steps are taken once they can
\* be; that the vendor answers is not assumed
NextCycle ==
    \/ Tick
    \/ AuthDone
    \/ ListDone
    \/ StatusDone
    \/ Close

TimesOut == \E outcome \in {o \in StatusOutcomes : o.kind = "timeout"} : StatusEnds(outcome)

SpecCycle ==
    Init /\ [][NextCycle]_vars
         /\ WF_vars(AuthDone) /\ WF_vars(ListDone) /\ WF_vars(TimesOut)

(***************************************************************************)
(* The write paths of the entities of one stored device, one at a time.    *)
(***************************************************************************)
\* what the host may ask for
RequestedTemperatures == {PyFloat(30, 1), PyFloat(50, 1), PyFloat(80, 1)}
OperationModes == {"heat", "off"}
ZeroColdWaterModes == {"one_key", "half_pipe", "off", "eco"}

\* how async_send_command ends: as in CommandOutcomes, or with a status 200 and a
\* body that is JSON, true and no object
WriteOutcomes == CommandOutcomes \cup {"notdict"}

\* the platforms are set up once the first refresh has stored the device, with
\* its status or without
InitWrites ==
    /\ session = TRUE
    /\ is_authenticated = TRUE
    /\ \E d \in EntityDevices :
          data \in {d :> snap : snap \in {DeviceRecord(d)}
                        \cup {Merge(DeviceRecord(d), i) : i \in StatusInfos}}
    /\ prevData = VendorMap(data)
    /\ last_update_success = TRUE
    /\ listed = TRUE
    /\ devices = <<>>
    /\ idx = 0
    /\ built = EmptyMap
    /\ results = EmptyMap
    /\ inflight = {}
    /\ lastCmd = NoCommand
    /\ raised = "none"
    /\ is_on = [key \in Switches |-> FALSE]
    /\ zero_cold_water_status = "off"
    /\ pc = "idle"
    /\ arg = None
    /\ ret = None

\* no handler is waiting for its command
Settled == inflight = {}

NextWrites ==
    \/ \E d \in EntityDevices, t \in RequestedTemperatures : Settled /\ SetTemperature(d, t)
    \/ \E d \in EntityDevices, mode \in OperationModes : Settled /\ SetOperationMode(d, mode)
    \/ \E d \in EntityDevices, mode \in ZeroColdWaterModes : Settled /\ SetZeroColdWater(d, mode)
    \/ \E d \in EntityDevices, value \in NumberValues : Settled /\ SetNativeValue(d, value)
    \/ \E d \in EntityDevices, option \in SelectOptions : Settled /\ SelectOption(d, option)
    \/ \E d \in EntityDevices, pct \in Percentages : Settled /\ SetPercentage(d, pct)
    \/ \E d \in EntityDevices, key \in Switches : Settled /\ TurnOn(d, key)
    \/ \E d \in EntityDevices, key \in Switches : Settled /\ TurnOff(d, key)
    \/ \E c \in inflight, outcome \in WriteOutcomes : CommandDone(c, outcome)
    \/ Settled /\ Close

SpecWrites == InitWrites /\ [][NextWrites]_vars

(***************************************************************************)
(* The vendor API client: AOSmithAPI, one call at a time.                  *)
(***************************************************************************)
DEVICE_CATEGORY_WATER_HEATER == PyStr(<<"1", "9">>)

\* a key of a dict that may be missing
Absent == [t |-> "absent"]
Item(key, v) == IF v = Absent THEN EmptyMap ELSE key :> v

\* what the HTTP exchange of a call gives: the request raises a transport error
\* or times out, the answer has a status other than 200, its body is not JSON,
\* or it is a JSON envelope with a status and an info object
Envelope(status, info) == [kind |-> "json", status |-> status, info |-> info]
Failures == {[kind |-> k] : k \in {"error", "timeout", "http", "badjson"}}

\* `except asyncio.TimeoutError:` in a module that does not import asyncio: the
\* clause is evaluated for the exception that reached it, and raises NameError
OuterExcept(e) == Raise("NameError")

\* str(device.get("deviceCategory")) == DEVICE_CATEGORY_WATER_HEATER
IsWaterHeater(device) ==
    PyStrOf(Get(device, "deviceCategory")) = DEVICE_CATEGORY_WATER_HEATER

\* devices.extend(room_info["deviceList"]) over the rooms that have the key
RECURSIVE RoomDevices(_, _)
RoomDevices(rooms, i) ==
    IF i > Len(rooms) THEN <<>>
    ELSE (IF "deviceList" \in DOMAIN rooms[i] THEN rooms[i].deviceList.elems ELSE <<>>)
         \o RoomDevices(rooms, i + 1)

\* the room lists are appended whatever the primary list gave
SelectedDevicesMerged(info) ==
    (IF "devInfoItemInfoList" \in DOMAIN info THEN info.devInfoItemInfoList.elems ELSE <<>>)
    \o (IF "roomInfoItemInfoList" \in DOMAIN info
        THEN RoomDevices(info.roomInfoItemInfoList.elems, 1) ELSE <<>>)

\* the primary list, and the room lists only if that gave no device
SelectedDevices(info) ==
    LET primary == IF "devInfoItemInfoList" \in DOMAIN info
                   THEN info.devInfoItemInfoList.elems ELSE <<>>
    IN IF primary = <<>> /\ "roomInfoItemInfoList" \in DOMAIN info
       THEN RoomDevices(info.roomInfoItemInfoList.elems, 1)
       ELSE primary

\* every failure is logged and answered with an empty list
get_devicesEmptyOnFailure(sess, resp) ==
    IF ~sess THEN Raise("Exception")
    ELSE IF resp.kind = "json" /\ resp.status = 200
    THEN Ok(SelectSeq(SelectedDevices(resp.info), IsWaterHeater))
    ELSE Ok(<<>>)

\* api.py: AOSmithAPI.async_get_devices
get_devices(sess, resp) ==
    IF ~sess THEN Raise("Exception")
    ELSE IF resp.kind = "json" /\ resp.status = 200
    THEN Ok(SelectSeq(SelectedDevices(resp.info), IsWaterHeater))
    ELSE OuterExcept("Exception")

\* api.py: AOSmithAPI.async_get_device_status
get_device_status(sess, resp) ==
    IF ~sess THEN Raise("Exception")
    ELSE CASE resp.kind = "json" -> IF resp.status = 200 THEN Ok(resp.info) ELSE Ok(None)
           [] resp.kind = "badjson" -> Ok(None)
           [] resp.kind = "http" -> Ok(None)
           [] OTHER -> OuterExcept(resp.kind)

\* close() leaves the authenticated flag set
closeKeepsFlag(client) == [client EXCEPT !.session = FALSE]

\* api.py: AOSmithAPI.close
close(client) ==
    IF client.session THEN [session |-> FALSE, is_authenticated |-> FALSE] ELSE client

\* a validation listing that returns is enough, whatever it lists
authenticateAnyListing(client, resp) ==
    LET opened == [client EXCEPT !.session = TRUE]
        found == get_devices(opened.session, resp)
    IN IF found.exc = "none"
       THEN [client |-> [opened EXCEPT !.is_authenticated = TRUE], result |-> Ok(None)]
       ELSE [client |-> close(opened), result |-> Raise("Exception")]

\* api.py: AOSmithAPI.async_authenticate: the client afterwards, and the result
authenticate(client, resp) ==
    LET closed == IF client.session THEN close(client) ELSE client
        opened == [closed EXCEPT !.session = TRUE]
        found == get_devices(opened.session, resp)
    IN IF found.exc = "none" /\ found.val # <<>>
       THEN [client |-> [opened EXCEPT !.is_authenticated = TRUE], result |-> Ok(None)]
       ELSE [client |-> close(opened), result |-> Raise("Exception")]

\* __init__.py: the store of a cycle whose status fetches gave nothing
RECURSIVE Stored(_, _)
Stored(devs, i) ==
    IF i > Len(devs) THEN EmptyMap ELSE KeepBare(Stored(devs, i + 1), devs[i])

\* the async_setup_entry of each platform of PLATFORMS: the devices of the store
\* that get the entities of the platform
WaterHeaterEntities(store) ==
    {id \in DOMAIN store : Get(store[id], "deviceCategory") = PyStr(<<"1", "9">>)}
SensorEntities(store) ==
    {id \in DOMAIN store :
        PyStrOf(GetOr(store[id], "deviceCategory", PyStr(<<>>))) = PyStr(<<"1", "9">>)}
SwitchEntities(store) == {id \in DOMAIN store : IsWaterHeater(store[id])}

\* the vendor's devices: two water heaters (category as a string, as a number) and
\* two devices of other categories
VendorDevice(id, category) ==
    [deviceId |-> id, deviceCategory |-> category, productName |-> "heater"]
VendorDevices ==
    {VendorDevice("d1", PyStr(<<"1", "9">>)), VendorDevice("d2", PyInt(19)),
     VendorDevice("d3", PyStr(<<"2", "0">>)), VendorDevice("d4", PyInt(7))}
VendorLists == {q \in SeqsUpTo(VendorDevices, MaxVendor) : Distinct(q)}
ShortLists == {q \in VendorLists : Len(q) <= 1}

Room(q) == [roomName |-> "room", deviceList |-> PyList(q)]
RoomLists ==
    {<<>>, <<[roomName |-> "room"]>>}
    \cup {<<Room(q)>> : q \in {v \in VendorLists : Len(v) <= 2}}
    \cup {<<Room(q), Room(r)>> : q, r \in {v \in ShortLists : v # <<>>}}

HomepageInfos ==
    {Item("devInfoItemInfoList", p) @@ Item("roomInfoItemInfoList", r) :
        p \in {Absent} \cup {PyList(q) : q \in VendorLists},
        r \in {Absent} \cup {PyList(q) : q \in RoomLists}}

HomepageResponses ==
    Failures \cup {Envelope(500, EmptyMap)} \cup {Envelope(200, i) : i \in HomepageInfos}
StatusResponses ==
    Failures \cup {Envelope(500, EmptyMap), Envelope(200, EmptyMap)}
    \cup {Envelope(200, i) : i \in StatusInfos}

Client == [session |-> session, is_authenticated |-> is_authenticated]
NotClient == <<data, last_update_success, pc, listed, devices, idx, built, results,
               prevData, inflight, lastCmd, raised, is_on, zero_cold_water_status>>

\* `arg` while no call has returned a result the caller has yet to take
NoCall == [call |-> "none", response |-> None]

\* AOSmithAPI.__init__
InitClient ==
    /\ session = FALSE
    /\ is_authenticated = FALSE
    /\ Quiet
    /\ pc = "idle"
    /\ arg = NoCall
    /\ ret = None

CallAuthenticate(resp) ==
    /\ arg = NoCall
    /\ session' = authenticate(Client, resp).client.session
    /\ is_authenticated' = authenticate(Client, resp).client.is_authenticated
    /\ arg' = [call |-> "authenticate", response |-> resp]
    /\ ret' = authenticate(Client, resp).result
    /\ UNCHANGED NotClient

CallGetDevices(resp) ==
    /\ arg = NoCall
    /\ arg' = [call |-> "get_devices", response |-> resp]
    /\ ret' = get_devices(session, resp)
    /\ UNCHANGED <<session, is_authenticated>>
    /\ UNCHANGED NotClient

CallGetDeviceStatus(resp) ==
    /\ arg = NoCall
    /\ arg' = [call |-> "get_device_status", response |-> resp]
    /\ ret' = get_device_status(session, resp)
    /\ UNCHANGED <<session, is_authenticated>>
    /\ UNCHANGED NotClient

\* close(), `arg` recording whether it found a session
CallClose ==
    /\ arg = NoCall
    /\ session' = close(Client).session
    /\ is_authenticated' = close(Client).is_authenticated
    /\ arg' = [call |-> "close", response |-> [kind |-> IF session THEN "open" ELSE "closed"]]
    /\ ret' = Ok(None)
    /\ UNCHANGED NotClient

\* the caller takes the result of the call
Returned ==
    /\ arg # NoCall
    /\ arg' = NoCall
    /\ ret' = None
    /\ UNCHANGED <<session, is_authenticated>>
    /\ UNCHANGED NotClient

NextClient ==
    \/ \E resp \in HomepageResponses : CallAuthenticate(resp)
    \/ \E resp \in HomepageResponses : CallGetDevices(resp)
    \/ \E resp \in StatusResponses : CallGetDeviceStatus(resp)
    \/ CallClose
    \/ Returned

SpecClient == InitClient /\ [][NextClient]_vars

(***************************************************************************)
(* The status decoder applied to one snapshot.                             *)
(***************************************************************************)
OutputA == PyDict([waterTemp |-> PyStr(<<"4", "5">>)])
OutputB == PyDict([waterTemp |-> PyStr(<<"5", "0">>)])
OutputOn == PyDict([waterTemp |-> PyStr(<<"5", "0">>), powerStatus |-> PyStr(<<"1">>)])
NotPost == PyStr(<<"a">>)

\* elements of an events list: a non-mapping, post events whose outputData is a
\* mapping, is not a mapping or is missing, and an event that is not a post
Events ==
    {PyInt(1),
     PyDict([identifier |-> Post, outputData |-> OutputA]),
     PyDict([identifier |-> Post, outputData |-> OutputB]),
     PyDict([identifier |-> Post, outputData |-> PyStr(<<"a">>)]),
     PyDict([identifier |-> Post]),
     PyDict([identifier |-> NotPost, outputData |-> OutputB])}

EventsValues == {Absent, PyInt(1)} \cup {PyList(q) : q \in SeqsUpTo(Events, MaxEvents)}
TopLevelValues == {Absent, OutputB, PyStr(<<"a">>)}

\* decoded JSON objects
Objects ==
    {PyDict(Item("events", e) @@ Item("outputData", o)) :
        e \in EventsValues, o \in TopLevelValues}

\* decoded JSON values: objects, an array, null, a string
JsonValues == Objects \cup {PyList(<<PyInt(1)>>), None, PyStr(<<"a">>)}

\* statusInfo: absent, None, "", a non-JSON string, the JSON text of a number, of
\* each JSON value, an already-parsed dict, a number, a list
StatusInfoValues ==
    {Absent, None, PyStr(<<>>), PyStr(<<"a">>), PyStr(<<"1">>), PyInt(0), PyInt(5),
     PyList(<<PyInt(1)>>)}
    \cup {JsonText(j) : j \in JsonValues}
    \cup Objects

Snapshots ==
    {Item("statusInfo", v) @@ [deviceId |-> "d1"] : v \in StatusInfoValues}
    \cup {EmptyMap}
    \cup {[deviceId |-> "d1", appDeviceStatusInfoEntity |-> x] :
             x \in {PyDict([statusInfo |-> JsonText(StatusDoc(45))]), PyInt(1)}}

InitDecode ==
    /\ Fresh
    /\ pc = "call"
    /\ arg \in Snapshots
    /\ ret = None

\* one call of extract_output_data
Decode ==
    /\ pc = "call"
    /\ ret' = extract_output_data(arg)
    /\ pc' = "return"
    /\ UNCHANGED arg
    /\ UNCHANGED systemVars

SpecDecode == InitDecode /\ [][Decode]_vars

(***************************************************************************)
(* The reads of the water heater entity on one snapshot.                   *)
(***************************************************************************)
\* water_heater.py l.80: `power_status == "1" and water_temp and
\* float(water_temp) > 0` of one post event: "heat", the loop goes on ("next"),
\* or float raised ("raise")
OperationOfEvent(power, water) ==
    IF power = PyStr(<<"1">>) /\ Truthy(water)
    THEN (IF float(water).exc # "none" THEN "raise"
          ELSE IF float(water).val.num > 0 THEN "heat" ELSE "next")
    ELSE "next"

\* water_heater.py: the loop of current_operation; an exception gives "off"
RECURSIVE OperationScan(_, _)
OperationScan(es, i) ==
    IF i > Len(es) THEN "off"
    ELSE IF es[i].t # "dict" THEN "off"
    ELSE IF Get(es[i].items, "identifier") = Post
    THEN LET output == GetOr(es[i].items, "outputData", EmptyDict) IN
         IF output.t # "dict" THEN "off"
         ELSE LET found == OperationOfEvent(Get(output.items, "powerStatus"),
                                            Get(output.items, "waterTemp"))
              IN IF found = "heat" THEN "heat"
                 ELSE IF found = "raise" THEN "off"
                 ELSE OperationScan(es, i + 1)
    ELSE OperationScan(es, i + 1)

\* water_heater.py: AOSmithWaterHeater.current_operation
current_operation(snap) ==
    LET status_info == Get(snap, "statusInfo") IN
    IF ~Truthy(status_info) THEN "off"
    ELSE LET r == json_loads(status_info) IN
         IF r.exc # "none" \/ r.val.t # "dict" THEN "off"
         ELSE LET it == Iterate(GetOr(r.val.items, "events", PyList(<<>>))) IN
              IF it.exc # "none" THEN "off"
              ELSE OperationScan(it.val, 1)

\* outputData of a post event: powerStatus and waterTemp, each absent or not
PowerValues == {Absent, PyStr(<<"1">>), PyStr(<<"0">>), PyInt(1)}
WaterValues ==
    {Absent, None, PyStr(<<"4", "5">>), PyStr(<<"0">>), PyStr(<<>>), PyStr(<<"a">>),
     PyInt(0), PyInt(45)}
Outputs ==
    {PyDict(Item("powerStatus", p) @@ Item("waterTemp", w)) :
        p \in PowerValues, w \in WaterValues}
PostOf(output) == PyDict([identifier |-> Post, outputData |-> output])

\* snapshots whose status holds one post event, or two, and those of the decoder
ReadSnapshots ==
    {[deviceId |-> "d1", statusInfo |-> JsonText(PyDict([events |-> PyList(<<PostOf(o)>>)]))] :
        o \in Outputs}
    \cup {[deviceId |-> "d1",
           statusInfo |-> JsonText(PyDict([events |-> PyList(<<PostOf(o), PostOf(OutputOn)>>)]))] :
             o \in Outputs}
    \cup Snapshots

InitRead ==
    /\ Fresh
    /\ pc = "call"
    /\ arg \in ReadSnapshots
    /\ ret = None

\* the host reads the state of the water heater
Read ==
    /\ pc = "call"
    /\ ret' = [current_operation |-> current_operation(arg),
               current_temperature |-> current_temperature(arg),
               target_temperature |-> target_temperature(arg)]
    /\ pc' = "return"
    /\ UNCHANGED arg
    /\ UNCHANGED systemVars

SpecRead == InitRead /\ [][Read]_vars

(***************************************************************************)
(* The sensor projection applied to one raw field value.                   *)
(***************************************************************************)
\* every numeric string read as a float
CoercedAlwaysFloat(value) ==
    IF value.t = "str" /\ Strip(value.s) # <<>> /\ IsDecimal(Strip(value.s))
    THEN float(PyStr(Strip(value.s))).val
    ELSE IF value.t = "str" /\ Strip(value.s) = <<>> THEN None
    ELSE value

\* sensor.py: native_value from `if value is None` on
Coerced(value) ==
    IF value = None THEN None
    ELSE IF value.t = "str"
    THEN LET val == Strip(value.s) IN
         IF val = <<>> THEN None
         ELSE IF IsDigit(ReplaceFirstDot(val))
         THEN (IF HasDot(val) THEN float(PyStr(val)).val ELSE int(PyStr(val)).val)
         ELSE value
    ELSE value

\* sensor.py: AOSmithSensor.native_value and AOSmithRawSensor.native_value
sensor_native_value(snap, key) ==
    LET output == local_extract_output_data(snap) IN
    IF output.exc # "none" THEN output
    ELSE IF ~Truthy(output.val) THEN Ok(None)
    ELSE IF output.val.t # "dict" THEN Raise("AttributeError")
    ELSE Ok(Coerced(Get(output.val.items, key)))

Chars == {"0", "4", "5", ".", " ", "a"}
RawValues ==
    {PyStr(q) : q \in SeqsUpTo(Chars, MaxStr)}
    \cup {None, PyInt(0), PyInt(45), PyFloat(385, 10)}

\* a stored snapshot whose post event reports `value` for waterTemp
SensorSnapshot(value) ==
    [deviceId |-> "d1",
     statusInfo |-> JsonText(PyDict([events |-> PyList(<<
         PyDict([identifier |-> Post,
                 outputData |-> PyDict([waterTemp |-> value,
                                        powerStatus |-> PyStr(<<"1">>)])])>>)]))]

InitCoerce ==
    /\ Fresh
    /\ pc = "call"
    /\ arg \in RawValues
    /\ ret = None

\* one read of the waterTemp sensor
Coerce ==
    /\ pc = "call"
    /\ ret' = sensor_native_value(SensorSnapshot(arg), "waterTemp")
    /\ pc' = "return"
    /\ UNCHANGED arg
    /\ UNCHANGED systemVars

SpecCoerce == InitCoerce /\ [][Coerce]_vars

(***************************************************************************)
(* The sensor platform: async_setup_entry of sensor.py, and the refreshes  *)
(* that follow it.                                                         *)
(***************************************************************************)
\* the vendor's field keys, and the outputData objects made of them
FieldKeys == {"waterTemp", "errorCode"}
FieldOutputs == {PyDict([k \in keys |-> PyStr(<<"1">>)]) : keys \in SUBSET FieldKeys}

\* the `info` objects of the status fetch: a post event with each outputData, a
\* post event whose outputData is a list, and a status without a post event
FieldStatusInfos ==
    {[statusInfo |-> JsonText(PyDict([events |-> PyList(<<PostOf(o)>>)]))] :
        o \in FieldOutputs \cup {PyList(<<PyInt(1)>>)}}
    \cup {[statusInfo |-> JsonText(PyDict([events |-> PyList(<<
              PyDict([identifier |-> PyStr(<<"a">>), outputData |-> OutputA])>>)]))]}
FieldOutcomes ==
    {[kind |-> "ok", info |-> i] : i \in FieldStatusInfos}
    \cup {[kind |-> "none", info |-> EmptyMap]}

\* __init__.py: the dict a whole cycle builds from the listing and what each
\* status fetch gave
RECURSIVE Built(_, _, _)
Built(devs, outcomes, n) ==
    IF n = 0 THEN EmptyMap
    ELSE LET blt == Built(devs, outcomes, n - 1) IN
         IF devs[n].deviceId = NoId THEN blt
         ELSE StoreStatus(blt, devs[n], outcomes[n])

Stores ==
    {Built(devs, outcomes, Len(devs)) :
        devs \in Listings, outcomes \in [1..MaxList -> FieldOutcomes]}

\* sensor_mapping: the keys of entity.sensor in the language document
Registries == SUBSET FieldKeys

Sensor(kind, d, key) == [kind |-> kind, device |-> d, key |-> key]

\* a raw sensor for every key of outputData
RawKeysUnfiltered(output, sensor_mapping) == DOMAIN output.items

\* `for key in output.keys(): if key not in sensor_mapping`
RawKeys(output, sensor_mapping) == DOMAIN output.items \ sensor_mapping

\* sensor.py: what the body of the device loop appends for one device
SensorsOf(store, d, sensor_mapping) ==
    LET output == local_extract_output_data(store[d]).val IN
    SetToBag({Sensor("mapped", d, key) : key \in sensor_mapping})
    (+) (IF output.t = "dict"
         THEN SetToBag({Sensor("raw", d, key) : key \in RawKeys(output, sensor_mapping)})
         ELSE EmptyBag)

\* sensor.py: the entities async_setup_entry hands to async_add_entities, or the
\* exception of _extract_output_data it lets through
sensor_async_setup_entry(store, sensor_mapping) ==
    IF \E d \in SensorEntities(store) : local_extract_output_data(store[d]).exc # "none"
    THEN Raise("AttributeError")
    ELSE Ok(BagUnion({SensorsOf(store, d, sensor_mapping) : d \in SensorEntities(store)}))

\* the coordinator once its first refresh has installed `store`
Started(store) ==
    /\ session = TRUE
    /\ is_authenticated = TRUE
    /\ data = store
    /\ prevData = VendorMap(store)
    /\ last_update_success = TRUE
    /\ listed = TRUE
    /\ devices = <<>>
    /\ idx = 0
    /\ built = EmptyMap
    /\ results = EmptyMap
    /\ inflight = {}
    /\ lastCmd = NoCommand
    /\ raised = "none"
    /\ is_on = [key \in Switches |-> FALSE]
    /\ zero_cold_water_status = "off"
    /\ pc = "idle"

InitSensors ==
    /\ \E store \in Stores : Started(store)
    /\ arg \in Registries
    /\ ret = None

\* the host sets the sensor platform up, once
SetupSensors ==
    /\ pc = "idle"
    /\ ret = None
    /\ ret' = sensor_async_setup_entry(data, arg)
    /\ UNCHANGED <<arg, pc>>
    /\ UNCHANGED systemVars

\* a whole refresh cycle: it lists, fetches every status and installs the map
RefreshSensors ==
    /\ pc = "idle"
    /\ \E store \in Stores : Install(store)
    /\ UNCHANGED <<session, is_authenticated, listed, results, lastCmd>>
    /\ UNCHANGED <<pureVars, entityVars>>

NextSensors == SetupSensors \/ RefreshSensors

SpecSensors == InitSensors /\ [][NextSensors]_vars

(***************************************************************************)
(* The reads of the entities of one device, between refreshes that may     *)
(* drop the device and the commands of its switches.                       *)
(***************************************************************************)
\* water_heater.py: AOSmithWaterHeater.extra_state_attributes; an exception
\* leaves attrs empty
extra_state_attributes(snap, zero_cold_water) ==
    LET status_info == Get(snap, "statusInfo")
        r == json_loads(status_info)
        it == Iterate(GetOr(r.val.items, "events", PyList(<<>>)))
        posts == {i \in 1..Len(it.val) :
                     it.val[i].t # "dict" \/ Get(it.val[i].items, "identifier") = Post}
        first == it.val[CHOOSE i \in posts : \A j \in posts : i <= j]
        output_data == GetOr(first.items, "outputData", EmptyDict)
        flows == [k \in {"waterFlow", "inWaterTemp", "outWaterTemp"} |->
                     float(GetOr(output_data.items, k, PyInt(0)))]
    IN IF ~Truthy(status_info) THEN EmptyMap
       ELSE IF r.exc # "none" \/ r.val.t # "dict" \/ it.exc # "none" THEN EmptyMap
       ELSE IF posts = {} \/ first.t # "dict" \/ output_data.t # "dict" THEN EmptyMap
       ELSE IF \E k \in DOMAIN flows : flows[k].exc # "none" THEN EmptyMap
       ELSE [water_flow |-> flows["waterFlow"].val,
             in_water_temp |-> flows["inWaterTemp"].val,
             out_water_temp |-> flows["outWaterTemp"].val,
             fire_work_time |-> Get(output_data.items, "fireWorkTime"),
             total_water_num |-> Get(output_data.items, "totalWaterNum"),
             error_code |-> Get(output_data.items, "errorCode"),
             power_status |-> Get(output_data.items, "powerStatus"),
             device_status |-> Get(output_data.items, "deviceStatus"),
             zero_cold_water |-> ModeName(zero_cold_water)]

\* entity.py: `profile` of _get_model_from_status and _get_firmware_version: None
\* when there is no status or json.loads raised, the AttributeError of a `get` on
\* a value that is no dict (it is not among the exceptions caught)
profile_of(snap) ==
    LET status_info == get_status_info(snap)
        r == json_loads(status_info)
        profile == GetOr(r.val.items, "profile", EmptyDict)
    IN IF ~Truthy(status_info) \/ r.exc # "none" THEN Ok(None)
       ELSE IF r.val.t # "dict" \/ profile.t # "dict" THEN Raise("AttributeError")
       ELSE Ok(profile)

\* entity.py: _get_firmware_version, given the profile
firmware_version(profile) ==
    LET firmware_list == GetOr(profile.items, "deviceFirmware", PyList(<<>>))
        it == Iterate(firmware_list)
        third == {i \in 1..Len(it.val) :
                     it.val[i].t # "dict" \/ Get(it.val[i].items, "type") = PyStr(<<"3">>)}
        found == it.val[CHOOSE i \in third : \A j \in third : i <= j]
    IN IF it.exc # "none" THEN Ok(None)
       ELSE IF third # {}
       THEN (IF found.t = "dict" THEN Ok(Get(found.items, "version"))
             ELSE Raise("AttributeError"))
       ELSE IF ~Truthy(firmware_list) THEN Ok(None)
       ELSE IF firmware_list.t # "list" THEN Ok(None)
       ELSE Ok(Get(it.val[1].items, "version"))

\* entity.py: AOSmithEntity.device_info (the Chinese product name of l.90 is none
\* of the model's names)
device_info(snap) ==
    LET profile == profile_of(snap)
        status_model ==
            IF profile.val = None THEN None
            ELSE IF Truthy(Get(profile.val.items, "deviceType"))
            THEN Get(profile.val.items, "deviceType")
            ELSE Get(profile.val.items, "deviceModel")
        sw_version == IF profile.val = None THEN Ok(None) ELSE firmware_version(profile.val)
    IN IF profile.exc # "none" THEN profile
       ELSE IF sw_version.exc # "none" THEN sw_version
       ELSE Ok([name |-> ModeName(GetOr(snap, "productName", "A.O. Smith Device")),
                model |-> IF "productModel" \in DOMAIN snap THEN snap["productModel"]
                          ELSE IF Truthy(status_model) THEN status_model
                          ELSE ModeName("Unknown Model"),
                sw_version |-> sw_version.val])

\* what the post event of a status reports for the two switches
SwitchOutputs ==
    {PyDict(Item("cruiseStatus", c) @@ Item("setHalfPipeCircle", h)
            @@ [waterTemp |-> PyStr(<<"4", "5">>), powerStatus |-> PyStr(<<"1">>)]) :
        c \in {Absent, PyStr(<<"1">>), PyStr(<<"0">>)},
        h \in {Absent, PyStr(<<"1">>), PyInt(1), PyStr(<<"0">>)}}

\* the `info` objects of the status fetch: a post event, a status without events,
\* and a status with a profile
SwitchStatusInfos ==
    {[statusInfo |-> JsonText(PyDict([events |-> PyList(<<PostOf(o)>>)]))] :
        o \in SwitchOutputs}
    \cup {[statusInfo |-> JsonText(PyDict([events |-> PyList(<<>>)]))],
          [statusInfo |-> JsonText(PyDict([profile |-> PyDict([
              deviceType |-> PyStr(<<"a">>),
              deviceFirmware |-> PyList(<<PyDict([type |-> PyStr(<<"3">>),
                                                  version |-> PyStr(<<"1">>)])>>)])]))]}

\* the maps a cycle can install: without the device, with its bare record, with
\* its record and a status
SwitchStores ==
    {EmptyMap}
    \cup {d :> KeepBare(EmptyMap, DeviceRecord(d))[d] : d \in EntityDevices}
    \cup {d :> Merge(DeviceRecord(d), i) : d \in EntityDevices, i \in SwitchStatusInfos}

Entities == {"water_heater", "sensor", "number"} \cup Switches

\* the platforms are set up once the first refresh has stored the device
InitSwitch ==
    /\ \E store \in SwitchStores \ {EmptyMap} : Started(store)
    /\ arg = None
    /\ ret = None

\* a whole refresh cycle installs its map
RefreshSwitch ==
    /\ pc = "idle"
    /\ \E store \in SwitchStores : Install(store)
    /\ lastCmd' = NoCommand
    /\ UNCHANGED <<session, is_authenticated, listed, results>>
    /\ UNCHANGED <<pureVars, entityVars>>

\* the host reads the state of one entity of the device; is_on of a switch
\* updates self._is_on first
ReadEntity(d, ent) ==
    /\ pc = "idle"
    /\ is_on' = IF ent \in Switches
                THEN [is_on EXCEPT ![ent] = update_state_from_data(device_data(d), ent, @)]
                ELSE is_on
    /\ ret' = [entity |-> ent, device |-> d, snapshot |-> device_data(d),
               device_info |-> device_info(device_data(d)),
               value |->
                 CASE ent = "water_heater" ->
                        [current_temperature |-> current_temperature(device_data(d)),
                         current_operation |-> ModeName(current_operation(device_data(d))),
                         target_temperature |-> target_temperature(device_data(d)),
                         extra_state_attributes |->
                             extra_state_attributes(device_data(d), zero_cold_water_status)]
                   [] ent = "sensor" -> sensor_native_value(device_data(d), "waterTemp")
                   [] ent = "number" -> native_value(device_data(d))
                   [] OTHER -> [t |-> "bool", v |-> is_on'[ent]]]
    /\ UNCHANGED <<session, is_authenticated, data, last_update_success, prevData,
                   inflight, lastCmd, raised, zero_cold_water_status, arg>>
    /\ UNCHANGED cycleVars

NextSwitch ==
    \/ RefreshSwitch
    \/ \E d \in EntityDevices, ent \in Entities : ReadEntity(d, ent)
    \/ \E d \in EntityDevices, key \in Switches : Settled /\ TurnOn(d, key)
    \/ \E d \in EntityDevices, key \in Switches : Settled /\ TurnOff(d, key)
    \/ \E c \in inflight, outcome \in CommandOutcomes : CommandDone(c, outcome)

SpecSwitch == InitSwitch /\ [][NextSwitch]_vars

(***************************************************************************)
(* The setup of the integration: async_setup_entry of __init__.py, from    *)
(* one await to the next.  `arg` is the entry and hass.data[DOMAIN], `ret` *)
(* what the call returned or raised.                                       *)
(***************************************************************************)
EntryIds == {"e1", "e2"}

\* `except Exception as err: raise ConfigEntryNotReady(...)`: hass.data[DOMAIN]
\* is left as it is
SetupFailed ==
    /\ arg' = [arg EXCEPT !.phase = "failed"]
    /\ ret' = Raise("ConfigEntryNotReady")

InitSetup ==
    /\ session = FALSE
    /\ is_authenticated = FALSE
    /\ Quiet
    /\ pc = "idle"
    /\ arg \in {[entry_id |-> e, coordinators |-> {}, phase |-> "authenticate"] :
                   e \in EntryIds}
    /\ ret = None

\* `await api.async_authenticate()` ends: a listing with devices, or an exception
\* after the session was closed
SetupAuthenticated ==
    /\ arg.phase = "authenticate"
    /\ \E authenticated \in BOOLEAN :
          /\ session' = authenticated
          /\ is_authenticated' = authenticated
          /\ IF authenticated
             THEN arg' = [arg EXCEPT !.phase = "first_refresh"] /\ ret' = ret
             ELSE SetupFailed
    /\ UNCHANGED <<data, last_update_success, prevData, inflight, lastCmd>>
    /\ UNCHANGED <<cycleVars, entityVars>>

\* `await coordinator.async_config_entry_first_refresh()` ends: the cycle's map is
\* installed and the coordinator is stored under the entry id, or the refresh
\* failed and the host's ConfigEntryNotReady is caught and raised again
SetupFirstRefresh ==
    /\ arg.phase = "first_refresh"
    /\ \/ /\ \E store \in Stores : Install(store)
          /\ arg' = [arg EXCEPT !.coordinators = @ \cup {arg.entry_id},
                                !.phase = "platforms"]
          /\ UNCHANGED <<ret, listed, results>>
       \/ /\ UpdateFailed
          /\ SetupFailed
    /\ UNCHANGED <<session, is_authenticated, lastCmd>>
    /\ UNCHANGED entityVars

\* `await hass.config_entries.async_forward_entry_setups(entry, PLATFORMS)`
\* ends: it returns, or it raises
SetupPlatforms ==
    /\ arg.phase = "platforms"
    /\ \/ /\ arg' = [arg EXCEPT !.phase = "done"]
          /\ ret' = Ok([t |-> "bool", v |-> TRUE])
       \/ SetupFailed
    /\ UNCHANGED systemVars
    /\ UNCHANGED pc

NextSetup == SetupAuthenticated \/ SetupFirstRefresh \/ SetupPlatforms

SpecSetup == InitSetup /\ [][NextSetup]_vars

(***************************************************************************)
(* The session of the API client, its calls interleaved at their awaits.   *)
(***************************************************************************)
\* in SpecSession `inflight` holds the calls suspended at an await and `arg` the
\* ClientSession objects: how many were made, which are open, and which one
\* self._session refers to (0 for None)
sessionFrame ==
    <<data, last_update_success, pc, listed, devices, idx, built, results, prevData,
      lastCmd, raised, is_on, zero_cold_water_status>>

\* the calls that use the session and leave it as it is
PlainCalls == {"get_devices", "get_device_status", "send_command"}

\* how the validation request of async_authenticate ends
ValidationOutcomes == {"devices", "empty", "raise"}

\* the body of close(): `await self._session.close()` closes the connector at once
\* and the two assignments follow
Closed(a) == [a EXCEPT !.open = @ \ {a.current}, !.current = 0]

InitSession ==
    /\ session = FALSE
    /\ is_authenticated = FALSE
    /\ Quiet
    /\ pc = "idle"
    /\ arg = [made |-> 0, open |-> {}, current |-> 0]
    /\ ret = None

\* api.py: async_authenticate, to its await of async_get_devices
SessionAuthenticate ==
    /\ arg.made < MaxSessions
    /\ Cardinality(inflight) < MaxCalls
    /\ LET new == arg.made + 1 IN
       /\ arg' = [made |-> new, open |-> Closed(arg).open \cup {new}, current |-> new]
       /\ inflight' = inflight \cup {[call |-> "authenticate", at |-> "await", s |-> new]}
    /\ session' = TRUE
    /\ is_authenticated' = IF session THEN FALSE ELSE is_authenticated
    /\ ret' = None
    /\ UNCHANGED sessionFrame

\* the answer to a suspended call's request arrives, or the request fails; a
\* request on a closed session fails
Answered(c, outcome) ==
    /\ c \in inflight
    /\ c.at = "await"
    /\ c.s \notin arg.open => outcome = "raise"
    /\ inflight' = (inflight \ {c}) \cup {[c EXCEPT !.at = outcome]}
    /\ UNCHANGED <<session, is_authenticated, arg, ret>>
    /\ UNCHANGED sessionFrame

\* api.py: async_authenticate resumes after its await
AuthenticateResumes(c) ==
    /\ c \in inflight
    /\ c.call = "authenticate"
    /\ c.at \in ValidationOutcomes
    /\ inflight' = inflight \ {c}
    /\ IF c.at = "devices"
       THEN /\ is_authenticated' = TRUE
            /\ ret' = Ok(None)
            /\ UNCHANGED <<session, arg>>
       ELSE /\ arg' = IF session THEN Closed(arg) ELSE arg
            /\ session' = FALSE
            /\ is_authenticated' = IF session THEN FALSE ELSE is_authenticated
            /\ ret' = Raise("Exception")
    /\ UNCHANGED sessionFrame

\* api.py: close()
SessionClose ==
    /\ arg' = IF session THEN Closed(arg) ELSE arg
    /\ session' = FALSE
    /\ is_authenticated' = IF session THEN FALSE ELSE is_authenticated
    /\ ret' = Ok(None)
    /\ UNCHANGED inflight
    /\ UNCHANGED sessionFrame

\* api.py: async_get_devices, async_get_device_status, async_send_command, to
\* the await of the request; without a session the call raises at once
CallStarts(call) ==
    /\ Cardinality(inflight) < MaxCalls
    /\ IF session
       THEN /\ inflight' = inflight \cup {[call |-> call, at |-> "await", s |-> arg.current]}
            /\ ret' = None
       ELSE /\ inflight' = inflight
            /\ ret' = Raise("Exception")
    /\ UNCHANGED <<session, is_authenticated, arg>>
    /\ UNCHANGED sessionFrame

\* the call resumes and returns or raises
CallEnds(c) ==
    /\ c \in inflight
    /\ c.call \in PlainCalls
    /\ c.at \in ValidationOutcomes
    /\ inflight' = inflight \ {c}
    /\ ret' = IF c.at = "raise" THEN Raise("Exception") ELSE Ok(None)
    /\ UNCHANGED <<session, is_authenticated, arg>>
    /\ UNCHANGED sessionFrame

NextSession ==
    \/ SessionAuthenticate
    \/ \E c \in inflight, outcome \in ValidationOutcomes : Answered(c, outcome)
    \/ \E c \in inflight : AuthenticateResumes(c)
    \/ SessionClose
    \/ \E call \in PlainCalls : CallStarts(call)
    \/ \E c \in inflight : CallEnds(c)

SpecSession == InitSession /\ [][NextSession]_vars

(***************************************************************************)
(* Properties of the coordinator.                                          *)
(***************************************************************************)
\* what a cycle must have stored for a listed device, given what its fetch gave
Expected(r) == IF r.got = "status" THEN Merge(r.device, r.info) ELSE r.device

\* C1: after a cycle whose device listing succeeded, the scheduler has recorded a
\* success (no exception reached it) and the store has exactly the listed devices
\* that have a deviceId, each with its merged snapshot when its status fetch
\* returned one and with its bare device record when the fetch timed out,
\* returned None or raised.
PartialFailureResilience ==
    (pc = "idle" /\ listed) =>
        /\ last_update_success
        /\ DOMAIN data = DOMAIN results
        /\ \A id \in DOMAIN results : VendorPart(data[id]) = Expected(results[id])

\* a finished cycle in which one device's fetch failed and another's succeeded
PartialFailureSeen ==
    /\ pc = "idle" /\ listed
    /\ \E a, b \in DOMAIN results :
          /\ results[a].got = "nothing" /\ results[b].got = "status"
          /\ a \in DOMAIN data /\ VendorPart(data[a]) = results[a].device
          /\ b \in DOMAIN data /\ "statusInfo" \in DOMAIN data[b]

\* C2: at every point of a refresh cycle the store is, overlays aside, the map
\* most recently installed as a whole: never the half-built map of the cycle.
AtomicReplacement == VendorMap(data) = prevData

\* a cycle suspended with some of its devices fetched, over a different stored map
HalfBuiltSeen ==
    /\ pc = "status"
    /\ DOMAIN built # {}
    /\ DOMAIN data # {}
    /\ DOMAIN built # DOMAIN data

\* C3: a cycle that ends at re-authentication or at the device listing without
\* a listing ends as a failure recorded by the scheduler (UpdateFailed), and the
\* store is the map it was: no entry added, removed or altered.
FailureKeepsStore ==
    [][(pc \in {"auth", "list"} /\ pc' = "idle" /\ ~listed')
          => (~last_update_success' /\ data' = data)]_vars

\* a failed cycle has left a non-empty store in place
FailureSeen == ~last_update_success /\ pc = "idle" /\ DOMAIN data # {}

(***************************************************************************)
(* Properties of the optimistic writes.                                    *)
(***************************************************************************)
\* the read of the projection that wrote the overlay
ReadOf(ent, snap) ==
    CASE ent = "water_heater" -> Ok(target_temperature(snap))
      [] ent = "number" -> native_value(snap)
      [] ent = "select" -> current_option(snap)
      [] ent = "fan" -> percentage(snap)

\* the read returned the written value
Shows(r, value) ==
    /\ r.exc = "none"
    /\ float(value).exc = "none"
    /\ float(r.val) = float(value)

\* C4 as stated: for a device stored when the overlay was written (and still
\* stored), every read between the write and the command's response returns
\* the written value.
OverlayVisibleUntilResponse ==
    \A c \in inflight :
        (c.inStore /\ c.dev \in DOMAIN data)
            => Shows(ReadOf(c.ent, device_data(c.dev)), c.value)

\* C4 amended: the same, as long as no refresh has installed a new map and no
\* later write or rollback has touched the same overlay field since the write.
OverlayVisibleWhileUntouched ==
    \A c \in inflight :
        c.live =>
            /\ Get(device_data(c.dev), KeyOf(c.ent)) = c.value
            /\ Shows(ReadOf(c.ent, device_data(c.dev)), c.value)

\* a command in flight over its overlay while a refresh cycle is running
OverlaySeen ==
    \E c \in inflight :
        /\ c.live
        /\ pc = "status"
        /\ Shows(ReadOf(c.ent, device_data(c.dev)), c.value)

\* C5: when the WaterTempSet command of a temperature write fails (None or a
\* response whose status is not 200), target_temperature is removed from the
\* snapshot.
TemperatureRolledBack ==
    [][\A c \in inflight \ inflight' :
          (c.ent = "water_heater" /\ c.live /\ lastCmd' = "failed")
              => "target_temperature" \notin DOMAIN data'[c.dev]]_vars

\* C6: when the WaterCruiseTimer command of a cruise-timer write fails, by
\* raising, by returning None or by a response whose status is not 200, the
\* cruise_timer overlay is removed from the snapshot.
CruiseTimerRolledBack ==
    [][/\ \A c \in inflight \ inflight' :
             (c.ent # "water_heater" /\ c.live /\ lastCmd' = "failed")
                 => "cruise_timer" \notin DOMAIN data'[c.dev]
       /\ lastCmd' = "raise" =>
             \A d \in EntityDevices : "cruise_timer" \notin DOMAIN device_data(d)']_vars

(***************************************************************************)
(* Properties of the status decoder (under SpecDecode).                    *)
(***************************************************************************)
\* what statusInfo decodes to, when it is JSON text or an already-parsed dict
Decoded(snap) ==
    LET raw == Get(snap, "statusInfo") IN
    IF raw.t = "text" THEN raw.doc ELSE IF raw.t = "dict" THEN raw ELSE None

HasEventsList(snap) ==
    Decoded(snap).t = "dict" /\ Get(Decoded(snap).items, "events").t = "list"
EventsOf(snap) == Get(Decoded(snap).items, "events").elems
IsPost(e) == e.t = "dict" /\ Get(e.items, "identifier") = Post
HasPost(snap) == \E i \in 1..Len(EventsOf(snap)) : IsPost(EventsOf(snap)[i])
FirstPost(snap) ==
    LET es == EventsOf(snap)
    IN es[CHOOSE i \in 1..Len(es) : IsPost(es[i]) /\ \A j \in 1..(i - 1) : ~IsPost(es[j])]
MappingOrEmpty(v) == IF v.t = "dict" THEN v ELSE EmptyDict

\* C7: extract_output_data returns a mapping for every snapshot and never raises.
DecoderTotal ==
    pc = "return" => (ret.exc = "none" /\ ret.val.t = "dict")

\* C8: when statusInfo decodes to an object whose events list has a post event,
\* the result is the outputData of the first post event if that is a mapping,
\* and the empty mapping otherwise.
FirstPostReturned ==
    (pc = "return" /\ HasEventsList(arg) /\ HasPost(arg)) =>
        ret = Ok(MappingOrEmpty(Get(FirstPost(arg).items, "outputData")))

AllMappings(snap) == \A i \in 1..Len(EventsOf(snap)) : EventsOf(snap)[i].t = "dict"

\* C9: when statusInfo decodes to an object whose events list has no post event,
\* the result is the empty mapping, also when the object has a top-level
\* outputData (stated here for events lists of mappings).
NoPostGivesEmpty ==
    (pc = "return" /\ HasEventsList(arg) /\ AllMappings(arg) /\ ~HasPost(arg))
        => ret = Ok(EmptyDict)

(***************************************************************************)
(* Properties of the numeric coercion (under SpecCoerce).                  *)
(***************************************************************************)
\* C10 as stated: a string of digits with at most one point becomes a float when
\* it has a point and an int otherwise, the empty string becomes None, and every
\* other value is returned unchanged.
CoercionAsStated ==
    pc = "return" =>
        ret = Ok(IF arg.t = "str" /\ IsDecimal(arg.s)
                 THEN (IF HasDot(arg.s) THEN float(arg).val ELSE int(arg).val)
                 ELSE IF arg = PyStr(<<>>) THEN None
                 ELSE arg)

\* C10 amended: the same of the string with its surrounding whitespace removed;
\* a string that is empty once stripped becomes None, and a value that is not
\* converted is returned as it was, unstripped.
CoercionAfterStrip ==
    pc = "return" =>
        LET stripped == IF arg.t = "str" THEN Strip(arg.s) ELSE <<>> IN
        /\ ret.exc = "none"
        /\ (arg.t = "str" /\ stripped = <<>>) => ret.val = None
        /\ (arg.t = "str" /\ IsDecimal(stripped) /\ HasDot(stripped)) =>
               (ret.val.t = "float" /\ ret.val = float(PyStr(stripped)).val)
        /\ (arg.t = "str" /\ IsDecimal(stripped) /\ ~HasDot(stripped)) =>
               ret.val = PyInt(StrToInt(stripped))
        /\ (arg.t # "str" \/ (stripped # <<>> /\ ~IsDecimal(stripped))) => ret.val = arg

\* the sensor has read " 45" as the int 45 and "4.5" as a float
CoercionSeen ==
    /\ pc = "return"
    /\ \/ arg = PyStr(<<" ", "4", "5">>) /\ ret = Ok(PyInt(45))
       \/ arg = PyStr(<<"4", ".", "5">>) /\ ret = Ok(PyFloat(45, 10))

\* C17: a cycle goes from idle through authenticate (when, and only when, the
\* client is not authenticated at the tick), the device listing and the status
\* fetches, in that order, back to idle; a listing or status request is awaited
\* only with the client authenticated and its session open.
PhaseOrder ==
    /\ pc \in {"list", "status"} => (is_authenticated /\ session)
    /\ pc = "auth" => (session /\ ~is_authenticated /\ ~listed /\ devices = <<>>)
    /\ pc = "status" => listed

PhasesInOrder ==
    [][/\ PhaseOrder /\ PhaseOrder'
       /\ (pc = "idle" /\ pc' # "idle") => pc' = (IF is_authenticated THEN "list" ELSE "auth")
       /\ pc = "auth" => pc' \in {"auth", "list", "idle"}
       /\ (pc = "auth" /\ pc' = "list") => is_authenticated'
       /\ pc = "list" => pc' \in {"list", "status", "idle"}
       /\ pc = "status" => pc' \in {"status", "idle"}]_vars

\* a tick that found the client unauthenticated awaits authenticate, no listing
\* of the cycle having been asked for
ReauthenticationSeen ==
    pc = "auth" /\ ~is_authenticated /\ ~listed /\ last_update_success

\* the devices of the cycle whose status fetch returned an info object, once
\* their snapshot is in the cycle's dict
MergedDevices == {id \in DOMAIN results \cap DOMAIN built : results[id].got = "status"}
InstalledDevices ==
    IF pc = "idle" /\ listed /\ last_update_success
    THEN {id \in DOMAIN results \cap DOMAIN prevData : results[id].got = "status"}
    ELSE {}
IsMergeOf(snap, device, status) ==
    /\ DOMAIN snap = DOMAIN device \cup DOMAIN status
    /\ \A k \in DOMAIN status : snap[k] = status[k]
    /\ \A k \in DOMAIN device \ DOMAIN status : snap[k] = device[k]

\* C18: the snapshot of a device whose status fetch succeeded, in the cycle's dict
\* and in the map installed, has every key of the device record and every key of
\* the status object, with the status value for a key of both.
MergedSnapshot ==
    /\ \A id \in MergedDevices :
          IsMergeOf(built[id], results[id].device, results[id].info)
    /\ \A id \in InstalledDevices :
          IsMergeOf(prevData[id], results[id].device, results[id].info)

\* a snapshot installed whose productName is the status object's, not the
\* device record's
CollisionSeen ==
    \E id \in InstalledDevices :
        /\ "productName" \in DOMAIN results[id].device \cap DOMAIN results[id].info
        /\ results[id].device.productName # results[id].info.productName
        /\ prevData[id].productName = results[id].info.productName

\* the step in which a cycle returns its map and the scheduler installs it
MapInstalled == pc # "idle" /\ pc' = "idle" /\ listed' /\ last_update_success'

\* C28: when a cycle's map is installed no snapshot of the store has an overlay
\* field (target_temperature, operation_mode, cruise_timer), whether it was
\* written before the cycle or while it ran; a rollback made afterwards leaves
\* the new snapshot as it is.
OverlaysDiscarded ==
    [][MapInstalled =>
          \A d \in DOMAIN data' :
              /\ DOMAIN data'[d] \cap OverlayKeys = {}
              /\ \A key \in OverlayKeys : Rollback(data', d, key) = data']_vars

\* a map installed over a snapshot that had an overlay whose command is still
\* awaited
OverlayDiscardedSeen ==
    /\ pc = "idle" /\ listed /\ last_update_success
    /\ \E c \in inflight :
          /\ c.inStore /\ ~c.live
          /\ c.dev \in DOMAIN data
          /\ KeyOf(c.ent) \notin DOMAIN data[c.dev]

\* C29: a set-temperature call that stores a target_temperature overlay sends
\* exactly one WaterTempSet command: no overlay is left without its command,
\* the client being authenticated or not.
OverlayHasCommand ==
    [][\A d \in EntityDevices, t \in Temperatures :
          (SetTemperature(d, t) /\ "target_temperature" \in DOMAIN device_data(d)')
              => /\ Command("water_heater", d, t) \in inflight'
                 /\ Cardinality(inflight') = Cardinality(inflight) + 1]_vars

\* C34: every refresh cycle ends, with a map installed or with a failure
\* recorded, without any status request being answered; when the wait for a
\* device's status times out the device is kept as its bare record and the
\* cycle goes on to the next listed device, or installs its map after the last.
CycleTerminates ==
    /\ (pc # "idle") ~> (pc = "idle")
    /\ [][\A outcome \in {o \in StatusOutcomes : o.kind = "timeout"} :
             StatusEnds(outcome) =>
                LET id == devices[idx].deviceId
                    later == {i \in (idx + 1)..Len(devices) : devices[i].deviceId # NoId}
                IN IF later = {}
                   THEN pc' = "idle" /\ last_update_success' /\ data'[id] = devices[idx]
                   ELSE /\ pc' = "status"
                        /\ built'[id] = devices[idx]
                        /\ idx' \in later
                        /\ \A i \in later : idx' <= i]_vars

\* a cycle has ended with one device kept bare and another stored with its status
BareAndStatusSeen ==
    /\ pc = "idle"
    /\ last_update_success
    /\ \E id, other \in DOMAIN results \cap DOMAIN data :
          /\ results[id].got = "nothing"
          /\ data[id] = results[id].device
          /\ results[other].got = "status"

\* the stores a first refresh can have installed when the platforms are set up:
\* each listed device is held as its bare record or merged with its status
FrameStores ==
    UNION {{s \in [D -> {DeviceRecord(d) : d \in D}
                         \cup {Merge(DeviceRecord(d), i) : d \in D, i \in StatusInfos}] :
               \A d \in D : s[d].deviceId = d}
           : D \in SUBSET DeviceIds}

InitFrame ==
    /\ \E store \in FrameStores : Started(store)
    /\ arg = None
    /\ ret = None

NextFrame ==
    \/ \E d \in EntityDevices, t \in RequestedTemperatures : SetTemperature(d, t)
    \/ \E d \in EntityDevices, value \in NumberValues : SetNativeValue(d, value)
    \/ \E d \in EntityDevices, option \in SelectOptions : SelectOption(d, option)
    \/ \E d \in EntityDevices, pct \in Percentages : SetPercentage(d, pct)
    \/ \E c \in inflight, outcome \in WriteOutcomes : CommandDone(c, outcome)
    \/ Close

SpecFrame == InitFrame /\ [][NextFrame]_vars

\* the step leaves every entry of the store as it was, but for `key` in the
\* snapshot of d; what the decoder reads from the snapshot of d is the same
OnlyOverlay(d, key) ==
    /\ DOMAIN data' = DOMAIN data
    /\ \A e \in DOMAIN data :
          /\ DOMAIN data'[e] \ {key} = DOMAIN data[e] \ {key}
          /\ \A k \in DOMAIN data[e] \ {key} : data'[e][k] = data[e][k]
          /\ e # d => data'[e] = data[e]
    /\ extract_output_data(device_data(d))' = extract_output_data(device_data(d))
    /\ d \notin DOMAIN data => data' = data

\* C32: a write path changes its own overlay key in the snapshot of its own
\* device and nothing else: the vendor's fields and the decoded outputData of
\* that snapshot, and the snapshots of the other devices, are unchanged, and a
\* write for a device that is not stored leaves the store unchanged.
WriteFrame ==
    [][\A d \in EntityDevices :
          /\ (\E t \in RequestedTemperatures : SetTemperature(d, t))
                => OnlyOverlay(d, "target_temperature")
          /\ (\/ \E value \in NumberValues : SetNativeValue(d, value)
              \/ \E option \in SelectOptions : SelectOption(d, option)
              \/ \E pct \in Percentages : SetPercentage(d, pct))
                => OnlyOverlay(d, "cruise_timer")
          /\ (\E c \in inflight, outcome \in WriteOutcomes : CommandDone(c, outcome))
                => data' = data]_vars

\* an overlay written into the snapshot of one device while another device is
\* stored with its status
OverlayBesideOtherSeen ==
    \E d \in EntityDevices, e \in DOMAIN data \ EntityDevices :
        /\ d \in DOMAIN data
        /\ DOMAIN data[d] \cap OverlayKeys # {}
        /\ "statusInfo" \in DOMAIN data[d] \cap DOMAIN data[e]

\* ---------------------------------------------------------------------------
\* The write paths (SpecWrites)

\* C19: no write path lets an exception through to the host when its command
\* fails (the request raises, the HTTP status is not 200, the response's status
\* is not 200) or when there is no session at the write.
WritePath(d) ==
    \/ \E t \in RequestedTemperatures : SetTemperature(d, t)
    \/ \E mode \in OperationModes : SetOperationMode(d, mode)
    \/ \E mode \in ZeroColdWaterModes : SetZeroColdWater(d, mode)
    \/ \E value \in NumberValues : SetNativeValue(d, value)
    \/ \E option \in SelectOptions : SelectOption(d, option)
    \/ \E pct \in Percentages : SetPercentage(d, pct)
    \/ \E key \in Switches : TurnOn(d, key) \/ TurnOff(d, key)
CommandFailed == \E c \in inflight : CommandDone(c, "non200") \/ CommandDone(c, "none")
NoHostFailure ==
    [][((\E d \in EntityDevices : WritePath(d)) \/ CommandFailed) => raised' = "none"]_vars

\* a cruise-timer or switch write made with no session: async_send_command has
\* raised and the handler has returned normally
RaiseCaughtSeen == ~session /\ lastCmd = "raise" /\ raised = "none"

\* C20: a target_temperature overlay lies within [35, 70], and so does the
\* temperature of a WaterTempSet command sent.
InRange(t) == 35 * t.den <= t.num /\ t.num <= 70 * t.den
TargetWithinRange ==
    /\ \A d \in DOMAIN data :
          "target_temperature" \in DOMAIN data[d] => InRange(data[d].target_temperature)
    /\ \A c \in inflight : c.ent = "water_heater" => InRange(c.value)

\* the number of minutes a cruise_timer value stands for: an int, or a str of digits
Minutes(v) == IF v.t = "int" THEN v.v ELSE StrToInt(v.s)
CruiseTimerPaths == {"number", "select", "fan"}

RollbackRestoresDisplayed ==
    [][\A d \in EntityDevices, ent \in CruiseTimerPaths :
          (lastCmd' = "raise" /\ "cruise_timer" \in DOMAIN device_data(d))
              => ReadOf(ent, device_data(d))' = ReadOf(ent, device_data(d))]_vars

\* ---------------------------------------------------------------------------
\* The API client (SpecClient)

\* the call whose result the caller is about to take, and a listing that succeeded
Called(name) == arg.call = name
Listing == Called("get_devices") /\ ret.exc = "none"

\* the two places of a homepage info object where devices are listed
PrimaryOf(info) ==
    IF "devInfoItemInfoList" \in DOMAIN info THEN info.devInfoItemInfoList.elems ELSE <<>>
RoomsOf(info) ==
    IF "roomInfoItemInfoList" \in DOMAIN info THEN info.roomInfoItemInfoList.elems ELSE <<>>
InRooms(info) ==
    {d \in VendorDevices : \E i \in DOMAIN RoomsOf(info) :
        /\ "deviceList" \in DOMAIN RoomsOf(info)[i]
        /\ \E j \in DOMAIN RoomsOf(info)[i].deviceList.elems :
              RoomsOf(info)[i].deviceList.elems[j] = d}
Elems(q) == {q[i] : i \in DOMAIN q}
Category19(d) == d.deviceCategory \in {PyStr(<<"1", "9">>), PyInt(19)}

\* C11: a listing that succeeded returns water heaters of the room-nested lists,
\* and all of them, when the primary list is absent or empty and the rooms have
\* devices; when the primary list is not empty it returns water heaters of the
\* primary list only, whatever the rooms hold.
DeviceListFallback ==
    Listing =>
        LET info == arg.response.info
        IN /\ (PrimaryOf(info) = <<>> /\ InRooms(info) # {})
                => Elems(ret.val) = {d \in InRooms(info) : Category19(d)}
           /\ PrimaryOf(info) # <<>>
                => Elems(ret.val) = {d \in Elems(PrimaryOf(info)) : Category19(d)}

\* a listing answered from the rooms, the primary list being present but empty
FallbackSeen ==
    /\ Listing
    /\ "devInfoItemInfoList" \in DOMAIN arg.response.info
    /\ PrimaryOf(arg.response.info) = <<>>
    /\ ret.val # <<>>
    /\ Elems(ret.val) \subseteq InRooms(arg.response.info)

\* the devices of a store that have every entity of the integration, and those
\* that have one at least
FullyProjected(store) ==
    WaterHeaterEntities(store) \cap SensorEntities(store) \cap SwitchEntities(store)
Projected(store) ==
    WaterHeaterEntities(store) \cup SensorEntities(store) \cup SwitchEntities(store)
ListingFiltered ==
    Listing => ret.val = SelectSeq(SelectedDevices(arg.response.info), Category19)
OneOfThree(q) ==
    Len(q) = 3 /\ Cardinality({i \in DOMAIN q : Category19(q[i])}) = 1

\* C12: a listing that succeeded returns exactly the devices of the selected list
\* whose category, as a string, is "19"; and when that list has three devices of
\* which one is of category 19, the store built from the listing has one device,
\* that device has every entity (water heater, sensors, switches), and no other
\* device has any.
WaterHeaterFiltering ==
    /\ ListingFiltered
    /\ (Listing /\ OneOfThree(SelectedDevices(arg.response.info))) =>
          LET store == Stored(ret.val, 1)
          IN /\ Cardinality(DOMAIN store) = 1
             /\ FullyProjected(store) = DOMAIN store
             /\ Projected(store) = DOMAIN store

\* C38: every device of a listing that succeeded, once stored, gets a water-heater
\* entity, and the devices given a water-heater entity are those given sensors
\* and those given switches, whether deviceCategory is a string or a number.
CategoryTestConsistent ==
    Listing =>
        LET store == Stored(ret.val, 1)
        IN /\ WaterHeaterEntities(store) = DOMAIN store
           /\ WaterHeaterEntities(store) = SensorEntities(store)
           /\ WaterHeaterEntities(store) = SwitchEntities(store)

\* the exchange of the call failed: the request raised or timed out, the HTTP
\* status was not 200, the body was not JSON, or the envelope's status was not 200
Failed(resp) == resp.kind # "json" \/ resp.status # 200
ListingFailed == Called("get_devices") /\ session /\ Failed(arg.response)

StatusNoneOnFailure ==
    (Called("get_device_status") /\ session) =>
        ret = IF Failed(arg.response) THEN Ok(None) ELSE Ok(arg.response.info)

\* the water heaters a homepage answer lists, in the list get_devices selects
WaterHeatersListed(resp) ==
    IF Failed(resp) THEN {}
    ELSE IF PrimaryOf(resp.info) # <<>>
    THEN {d \in Elems(PrimaryOf(resp.info)) : Category19(d)}
    ELSE {d \in InRooms(resp.info) : Category19(d)}
Validated == Called("authenticate") /\ WaterHeatersListed(arg.response) # {}
Rejected == Called("authenticate") /\ WaterHeatersListed(arg.response) = {}

CloseIdempotent ==
    [][(arg = NoCall /\ Called("close")') =>
          /\ ret' = Ok(None)
          /\ ~session' /\ ~is_authenticated'
          /\ ~session => UNCHANGED <<session, is_authenticated>>]_vars

\* a close() that found no session open has returned
ClosedTwiceSeen ==
    Called("close") /\ arg.response.kind = "closed" /\ ret = Ok(None) /\ ~session

\* ---------------------------------------------------------------------------
\* The reads of the water heater (SpecRead)

\* the outputData the decoder gives for the snapshot has powerStatus "1"
PowerOn(snap) ==
    LET output == extract_output_data(snap) IN
    /\ output.exc = "none"
    /\ output.val.t = "dict"
    /\ Get(output.val.items, "powerStatus") = PyStr(<<"1">>)

\* C22: current_operation is "heat" exactly when the decoded outputData has
\* powerStatus "1", and "off" otherwise, whatever waterTemp is.
OperationFollowsPower ==
    pc = "return" =>
        ret.current_operation = (IF PowerOn(arg) THEN "heat" ELSE "off")

\* waterTemp of the outputData the decoder gives for the snapshot, if it has one
WaterTempOf(snap) ==
    LET output == extract_output_data(snap) IN
    IF output.exc = "none" /\ output.val.t = "dict"
    THEN GetOr(output.val.items, "waterTemp", Absent) ELSE Absent

\* C33: when the decoded outputData has waterTemp, current_temperature is its
\* numeric coercion: a numeric text or a number gives that number, and the
\* empty text gives None, not 0.
TemperatureCoerced ==
    pc = "return" =>
        LET w == WaterTempOf(arg) IN
        /\ w = PyStr(<<>>) => ret.current_temperature = None
        /\ (w \notin {Absent, None} /\ float(w).exc = "none")
              => ret.current_temperature = float(w).val

\* ---------------------------------------------------------------------------
\* The sensor platform (SpecSensors)

\* the keys of the outputData the sensor platform decodes for a stored device
OutputKeys(store, d) ==
    LET output == local_extract_output_data(store[d]) IN
    IF output.exc = "none" /\ output.val.t = "dict" THEN DOMAIN output.val.items ELSE {}

\* the step that sets the sensors up
SensorsSetUp == ret = None /\ ret' # None

NoFieldDropped ==
    ret # None =>
        \A d \in SensorEntities(data) :
            \A key \in OutputKeys(data, d) :
                \E kind \in {"mapped", "raw"} : BagIn(Sensor(kind, d, key), ret.val)

\* ---------------------------------------------------------------------------
\* The reads of the entities (SpecSwitch)

\* what a read gives when it has nothing to read
DefaultOf(ent) ==
    CASE ent = "water_heater" ->
           [current_temperature |-> None,
            current_operation |-> ModeName("off"),
            target_temperature |-> PyFloat(40, 1),
            extra_state_attributes |-> EmptyMap]
      [] ent \in {"sensor", "number"} -> Ok(None)
      [] OTHER -> [t |-> "bool", v |-> FALSE]

\* C25: a read of an entity whose device is not in the store is computed from
\* the empty snapshot: it raises nothing and gives null, off or the default,
\* device info included.
EmptySnapshotReads ==
    (ret # None /\ ret.snapshot = EmptyMap) =>
        /\ ret.value = DefaultOf(ret.entity)
        /\ ret.device_info =
              Ok([name |-> ModeName("A.O. Smith Device"),
                  model |-> ModeName("Unknown Model"),
                  sw_version |-> None])

\* C26: what a switch reports depends on the current snapshot only: when the
\* device is gone, or its snapshot has no post event, it is not the value kept
\* from an earlier snapshot or command.
SwitchFollowsSnapshot ==
    (ret # None /\ ret.entity \in Switches) =>
        ret.value.v = update_state_from_data(ret.snapshot, ret.entity, FALSE)

\* C30: once the command of a turn_on (turn_off) has succeeded, is_on is true
\* (false) until the next refresh, whatever the snapshot still carries; the
\* first read is the one of the handler's own state write.
SwitchShowsIntended ==
    [][\A c \in inflight :
          (inflight' = inflight \ {c} /\ c.ent \in Switches /\ lastCmd' = "ok")
              => is_on'[c.ent] = c.value.v]_vars

\* ---------------------------------------------------------------------------
\* The setup of the integration (SpecSetup)

\* C27: the setup ends in one of two ways: it returns true with the coordinator
\* stored under the entry id and the store populated by a refresh, or it raises
\* ConfigEntryNotReady and no coordinator is left stored; a failure of the
\* authentication, of the first refresh or of the platform setup gives the second.
SetupOutcomes ==
    ret # None =>
        \/ /\ ret = Ok([t |-> "bool", v |-> TRUE])
           /\ arg.coordinators = {arg.entry_id}
           /\ last_update_success
           /\ prevData = VendorMap(data)
        \/ /\ ret = Raise("ConfigEntryNotReady")
           /\ arg.coordinators = {}

\* C36: when async_setup_entry has raised ConfigEntryNotReady, after a failed
\* authentication, first refresh or platform setup, the client's session is closed.
NoSessionAfterFailedSetup == ret = Raise("ConfigEntryNotReady") => ~session

\* ---------------------------------------------------------------------------
\* The decoders (SpecDecode)

\* C37: the decoder of sensor.py, number.py, select.py and fan.py gives, for
\* every snapshot, what extract_output_data of entity.py gives.
DecodersAgree == pc = "return" => local_extract_output_data(arg) = ret

\* ---------------------------------------------------------------------------
\* The session of the client (SpecSession)

\* C35: whatever calls of the client have run or are suspended, is_authenticated
\* is true only while self._session refers to an open session, and at most one
\* session is open.
SessionInvariant ==
    /\ is_authenticated => (session /\ arg.current \in arg.open)
    /\ Cardinality(arg.open) <= 1

====
